---- MODULE Spec2Model ----
(***************************************************************************)
(* Model of the clinical note parser: section detection (app/sections.py)  *)
(* and chunk building (app/chunks.py) over a canonical note.               *)
(*                                                                         *)
(* A Python str is a sequence of one-character strings.  Offsets are       *)
(* 0-based as in the source: character i of s is s[i + 1].                 *)
(***************************************************************************)
EXTENDS Integers, Sequences, FiniteSets, TLC

Min(a, b) == IF a <= b THEN a ELSE b

Max(a, b) == IF a >= b THEN a ELSE b

\* ------------------------------------------------------------------------
\* Characters and the str methods the source uses
\* ------------------------------------------------------------------------

UpperChars ==
  <<"A","B","C","D","E","F","G","H","I","J","K","L","M",
    "N","O","P","Q","R","S","T","U","V","W","X","Y","Z">>

LowerChars ==
  <<"a","b","c","d","e","f","g","h","i","j","k","l","m",
    "n","o","p","q","r","s","t","u","v","w","x","y","z">>

UpperSet == {UpperChars[i] : i \in 1..26}

LowerSet == {LowerChars[i] : i \in 1..26}

DigitSet == {"0","1","2","3","4","5","6","7","8","9"}

\* str.strip() and the regex class \s
Whitespace == {" ", "\n", "\t", "\r"}

IsSpace(c) == c \in Whitespace

\* str.lower() / str.upper() on one character
ToLower(c) ==
  IF c \in UpperSet THEN LowerChars[CHOOSE i \in 1..26 : UpperChars[i] = c] ELSE c

ToUpper(c) ==
  IF c \in LowerSet THEN UpperChars[CHOOSE i \in 1..26 : LowerChars[i] = c] ELSE c

Upper(s) == [i \in 1..Len(s) |-> ToUpper(s[i])]

\* s[a:b] for 0 <= a, 0 <= b (Python clamps both ends)
Slice(s, a, b) ==
  LET lo == Min(a, Len(s))
      hi == Max(lo, Min(b, Len(s)))
  IN  SubSeq(s, lo + 1, hi)

\* s[a:]
From(s, a) == Slice(s, a, Len(s))

\* s[-n:] for n > 0
Last(s, n) == From(s, Max(0, Len(s) - n))

\* number of leading / trailing whitespace characters
RECURSIVE LeadingSpace(_)
LeadingSpace(s) ==
  IF s = <<>> \/ ~IsSpace(s[1]) THEN 0 ELSE 1 + LeadingSpace(Tail(s))

RECURSIVE TrailingSpace(_)
TrailingSpace(s) ==
  IF s = <<>> \/ ~IsSpace(s[Len(s)]) THEN 0
  ELSE 1 + TrailingSpace(SubSeq(s, 1, Len(s) - 1))

LStrip(s) == From(s, LeadingSpace(s))

RStrip(s) == SubSeq(s, 1, Len(s) - TrailingSpace(s))

Strip(s) == RStrip(LStrip(s))

\* str.rstrip(":")
RECURSIVE RStripColon(_)
RStripColon(s) ==
  IF s = <<>> \/ s[Len(s)] # ":" THEN s
  ELSE RStripColon(SubSeq(s, 1, Len(s) - 1))

\* s[i:i+len(sub)] == sub
StartsWithAt(s, i, sub) ==
  /\ i + Len(sub) <= Len(s)
  /\ \A k \in 1..Len(sub) : s[i + k] = sub[k]

\* the same under re.IGNORECASE, sub given in upper case
StartsWithAtCI(s, i, sub) ==
  /\ i + Len(sub) <= Len(s)
  /\ \A k \in 1..Len(sub) : ToUpper(s[i + k]) = sub[k]

\* str.find(sub): the first offset of sub in s, or -1
Find(s, sub) ==
  LET hits == {i \in 0..(Len(s) - Len(sub)) : StartsWithAt(s, i, sub)}
  IN  IF hits = {} THEN -1 ELSE CHOOSE i \in hits : \A j \in hits : i <= j

\* str.split(sep) for a non-empty separator
RECURSIVE Split(_, _)
Split(s, sep) ==
  LET i == Find(s, sep)
  IN  IF i < 0 THEN <<s>>
      ELSE <<Slice(s, 0, i)>> \o Split(From(s, i + Len(sep)), sep)

\* len(s.split()): the number of maximal runs of non-whitespace characters
WordCount(s) ==
  Cardinality({i \in 1..Len(s) :
                 ~IsSpace(s[i]) /\ (i = 1 \/ IsSpace(s[i - 1]))})

\* str.isupper(): at least one cased character and no lower-case one
IsUpper(s) ==
  /\ \E i \in 1..Len(s) : s[i] \in UpperSet
  /\ \A i \in 1..Len(s) : s[i] \notin LowerSet

\* "".join(parts)
RECURSIVE Concat(_)
Concat(parts) ==
  IF parts = <<>> THEN <<>> ELSE Head(parts) \o Concat(Tail(parts))

\* the offsets at which ^ matches under re.MULTILINE
LineStarts(s) == {p \in 0..Len(s) : p = 0 \/ s[p] = "\n"}

\* the offsets at which $ matches under re.MULTILINE
IsLineEnd(s, e) == e = Len(s) \/ s[e + 1] = "\n"

SetMin(S) == CHOOSE x \in S : \A y \in S : x <= y

\* ------------------------------------------------------------------------
\* app/sections.py
\* ------------------------------------------------------------------------

\* The alternatives of each pattern r"^(?:A|B|...)", in list order.  An optional
\* trailing S ("LABS?", "PROCEDURES?") is written out as two alternatives.
CLINICAL_SECTION_PATTERNS ==
  <<
    << <<"S","U","B","J","E","C","T","I","V","E">> >>,
    << <<"O","B","J","E","C","T","I","V","E">> >>,
    << <<"H","I","S","T","O","R","Y">>,
       <<"H","I","S","T","O","R","Y"," ","O","F"," ","P","R","E","S","E","N","T"," ","I","L","L","N","E","S","S">>,
       <<"H","P","I">> >>,
    << <<"P","A","S","T"," ","M","E","D","I","C","A","L"," ","H","I","S","T","O","R","Y">>,
       <<"P","M","H">>,
       <<"P","A","S","T"," ","H","I","S","T","O","R","Y">> >>,
    << <<"P","H","Y","S","I","C","A","L"," ","E","X","A","M">>,
       <<"P","H","Y","S","I","C","A","L"," ","E","X","A","M","I","N","A","T","I","O","N">>,
       <<"P","E">>,
       <<"E","X","A","M">> >>,
    << <<"M","E","D","I","C","A","T","I","O","N","S">>,
       <<"M","E","D","S">>,
       <<"C","U","R","R","E","N","T"," ","M","E","D","I","C","A","T","I","O","N","S">> >>,
    << <<"A","L","L","E","R","G","I","E","S">>,
       <<"A","L","L","E","R","G","Y">>,
       <<"A","D","V","E","R","S","E"," ","R","E","A","C","T","I","O","N","S">> >>,
    << <<"L","A","B">>,
       <<"L","A","B","S">>,
       <<"L","A","B","O","R","A","T","O","R","Y">>,
       <<"L","A","B"," ","R","E","S","U","L","T","S">> >>,
    << <<"I","M","A","G","I","N","G">>,
       <<"R","A","D","I","O","L","O","G","Y">>,
       <<"X","-","R","A","Y">>,
       <<"C","T">>,
       <<"M","R","I">> >>,
    << <<"A","S","S","E","S","S","M","E","N","T">>,
       <<"A","S","S","E","S","S","M","E","N","T"," ","A","N","D"," ","P","L","A","N">>,
       <<"A","&","P">> >>,
    << <<"P","L","A","N">> >>,
    << <<"D","I","A","G","N","O","S","I","S">>,
       <<"D","I","A","G","N","O","S","E","S">> >>,
    << <<"P","R","O","C","E","D","U","R","E">>,
       <<"P","R","O","C","E","D","U","R","E","S">>,
       <<"S","U","R","G","E","R","Y">> >>,
    << <<"S","O","C","I","A","L"," ","H","I","S","T","O","R","Y">>,
       <<"S","H">> >>,
    << <<"F","A","M","I","L","Y"," ","H","I","S","T","O","R","Y">>,
       <<"F","H">> >>,
    << <<"R","E","V","I","E","W"," ","O","F"," ","S","Y","S","T","E","M","S">>,
       <<"R","O","S">> >>,
    << <<"C","H","I","E","F"," ","C","O","M","P","L","A","I","N","T">>,
       <<"C","C">> >>,
    << <<"V","I","T","A","L"," ","S","I","G","N","S">>,
       <<"V","I","T","A","L","S">> >>,
    << <<"H","E","E","N","T">> >>,
    << <<"N","E","C","K">> >>,
    << <<"L","U","N","G","S">> >>,
    << <<"C","A","R","D","I","O","V","A","S","C","U","L","A","R">>,
       <<"C","V">> >>,
    << <<"A","B","D","O","M","E","N">>,
       <<"A","B","D">> >>,
    << <<"E","X","T","R","E","M","I","T","I","E","S">>,
       <<"E","X","T">> >>,
    << <<"N","E","U","R","O","L","O","G","I","C">>,
       <<"N","E","U","R","O">> >>
  >>

\* text[start_pos : start_pos + 2000]
OverviewWindow == 2000

\* re.search(r"(?i)<w1>\s+<w2>", s): w1, one or more whitespace characters, w2
SearchTwoWordsCI(s, w1, w2) ==
  \E i \in 0..Len(s) :
    /\ StartsWithAtCI(s, i, w1)
    /\ \E j \in (i + Len(w1) + 1)..Len(s) :
         /\ \A k \in (i + Len(w1))..(j - 1) : IsSpace(s[k + 1])
         /\ StartsWithAtCI(s, j, w2)

\* re.search(r"(?i)<w>", s)
SearchWordCI(s, w) == \E i \in 0..Len(s) : StartsWithAtCI(s, i, w)

\* any(re.search(pattern, window) for pattern in overview_patterns)
OverviewFound(window) ==
  \/ SearchTwoWordsCI(window, <<"M","E","D","I","C","A","L">>,
                              <<"S","P","E","C","I","A","L","T","Y">>)
  \/ SearchTwoWordsCI(window, <<"S","A","M","P","L","E">>, <<"N","A","M","E">>)
  \/ SearchWordCI(window, <<"D","E","S","C","R","I","P","T","I","O","N">>)

\* :?\s*$ matched from offset r
AfterHeaderGroup(s, r) ==
  \E c \in {0, 1} :
    /\ c = 1 => (r < Len(s) /\ s[r + 1] = ":")
    /\ \E e \in (r + c)..Len(s) :
         /\ \A k \in (r + c)..(e - 1) : IsSpace(s[k + 1])
         /\ IsLineEnd(s, e)

\* ([A-Z][A-Z\s]{3,}):?\s*$ matched from offset q
HeaderShapeAt(s, q) ==
  /\ q < Len(s)
  /\ s[q + 1] \in UpperSet
  /\ \E r \in (q + 4)..Len(s) :
       /\ \A k \in (q + 1)..(r - 1) : s[k + 1] \in UpperSet \/ IsSpace(s[k + 1])
       /\ AfterHeaderGroup(s, r)

\* r"^\s*([A-Z][A-Z\s]{3,}):?\s*$" matched from the line start p
FirstSectionMatchAt(s, p) ==
  \E q \in p..Len(s) :
    /\ \A k \in p..(q - 1) : IsSpace(s[k + 1])
    /\ HeaderShapeAt(s, q)

\* re.search(first_section_pattern, s, re.MULTILINE).start(), or -1
FirstSectionSearch(s) ==
  LET hits == {p \in LineStarts(s) : FirstSectionMatchAt(s, p)}
  IN  IF hits = {} THEN -1 ELSE SetMin(hits)

\* re.search(pattern, s, re.MULTILINE | re.IGNORECASE).start(), or -1
ClinicalSearch(s, alternatives) ==
  LET hits == {p \in LineStarts(s) :
                 \E a \in 1..Len(alternatives) : StartsWithAtCI(s, p, alternatives[a])}
  IN  IF hits = {} THEN -1 ELSE SetMin(hits)

\* the first pattern of the list, from index n on, that matches somewhere
RECURSIVE FirstClinicalMatch(_, _)
FirstClinicalMatch(s, n) ==
  IF n > Len(CLINICAL_SECTION_PATTERNS) THEN -1
  ELSE LET m == ClinicalSearch(s, CLINICAL_SECTION_PATTERNS[n])
       IN  IF m >= 0 THEN m ELSE FirstClinicalMatch(s, n + 1)

\* detect_overview_section(text, start_pos): (overview_end, overview_title);
\* the title None is written "None"
detect_overview_section(s, start_pos) ==
  IF ~OverviewFound(Slice(s, start_pos, start_pos + OverviewWindow))
  THEN [overview_end |-> start_pos, title |-> "None"]
  ELSE LET m == FirstSectionSearch(From(s, start_pos))
       IN  IF m >= 0
           THEN [overview_end |-> start_pos + m, title |-> "Overview"]
           ELSE LET c == FirstClinicalMatch(From(s, start_pos), 1)
                IN  IF c >= 0
                    THEN [overview_end |-> start_pos + c, title |-> "Overview"]
                    ELSE [overview_end |-> Len(s), title |-> "Overview"]

\* any(re.match(pattern, header_text, re.IGNORECASE) for pattern in CLINICAL_SECTION_PATTERNS)
MatchesClinicalPattern(header_text) ==
  \E n \in 1..Len(CLINICAL_SECTION_PATTERNS) :
    \E a \in 1..Len(CLINICAL_SECTION_PATTERNS[n]) :
      StartsWithAtCI(header_text, 0, CLINICAL_SECTION_PATTERNS[n][a])

\* the permissive branch: 4 to 50 characters, no digit, at most 5 words
LooksLikeSectionName(header_text) ==
  /\ Len(header_text) >= 4
  /\ Len(header_text) <= 50
  /\ \A i \in 1..Len(header_text) : header_text[i] \notin DigitSet
  /\ WordCount(header_text) <= 5

\* line_start_positions: offset of each line of text[overview_end:]
RECURSIVE LineStartPositions(_, _)
LineStartPositions(lines, current_pos) ==
  IF lines = <<>> THEN <<>>
  ELSE <<current_pos>> \o LineStartPositions(Tail(lines), current_pos + Len(Head(lines)) + 1)

\* the per-line test of find_section_headers_in_text
IsHeaderLine(lines, line_idx) ==
  LET line == lines[line_idx]
      line_stripped == Strip(line)
      header_text == RStripColon(line_stripped)
  IN  /\ line_stripped # <<>>
      /\ LeadingSpace(line) <= 3
      /\ IsUpper(line_stripped)
      /\ Len(header_text) >= 3
      /\ Len(header_text) < 100
      /\ MatchesClinicalPattern(header_text) \/ LooksLikeSectionName(header_text)
      /\ \/ line_idx = 1
         \/ Strip(lines[line_idx - 1]) = <<>>
         \/ line_idx + 1 <= Len(lines) /\ Strip(lines[line_idx + 1]) # <<>>

\* the candidates in line order
RECURSIVE HeaderCandidates(_, _, _)
HeaderCandidates(lines, positions, line_idx) ==
  IF line_idx > Len(lines) THEN <<>>
  ELSE (IF IsHeaderLine(lines, line_idx)
        THEN <<[pos |-> positions[line_idx] + LeadingSpace(lines[line_idx]),
                header |-> RStripColon(Strip(lines[line_idx]))]>>
        ELSE <<>>)
       \o HeaderCandidates(lines, positions, line_idx + 1)

\* sorted(candidates, key=lambda x: x[0]): a stable insertion sort
RECURSIVE InsertByPos(_, _)
InsertByPos(sorted, c) ==
  IF sorted = <<>> THEN <<c>>
  ELSE IF sorted[Len(sorted)].pos <= c.pos THEN Append(sorted, c)
  ELSE Append(InsertByPos(SubSeq(sorted, 1, Len(sorted) - 1), c), sorted[Len(sorted)])

RECURSIVE SortedByPos(_)
SortedByPos(cands) ==
  IF cands = <<>> THEN <<>>
  ELSE InsertByPos(SortedByPos(SubSeq(cands, 1, Len(cands) - 1)), cands[Len(cands)])

\* the seen-set loop: keep the first of each (pos, header.upper())
RECURSIVE UniqueCandidates(_, _)
UniqueCandidates(cands, seen) ==
  IF cands = <<>> THEN <<>>
  ELSE LET key == <<Head(cands).pos, Upper(Head(cands).header)>>
       IN  IF key \in seen THEN UniqueCandidates(Tail(cands), seen)
           ELSE <<Head(cands)>> \o UniqueCandidates(Tail(cands), seen \cup {key})

\* find_section_headers_in_text(text, overview_end): [(position, header_text)]
find_section_headers_in_text(s, overview_end) ==
  LET lines == Split(From(s, overview_end), <<"\n">>)
      positions == LineStartPositions(lines, overview_end)
  IN  UniqueCandidates(SortedByPos(HeaderCandidates(lines, positions, 1)), {})

\* _char_span_to_page(start_char, end_char, page_spans): one-based page of the
\* first span holding start_char, else of the first span holding end_char, else 1
char_span_to_page(start_char, end_char, spans) ==
  LET by_start == {i \in 1..Len(spans) :
                     spans[i].start_char <= start_char /\ start_char < spans[i].end_char}
      by_end == {i \in 1..Len(spans) :
                   spans[i].start_char <= end_char /\ end_char <= spans[i].end_char}
  IN  IF by_start # {} THEN spans[SetMin(by_start)].page_index + 1
      ELSE IF by_end # {} THEN spans[SetMin(by_end)].page_index + 1
      ELSE 1

\* Section(...): the record, and whether validate_end_after_start accepts it
Section(title, start_char, end_char, start_page, end_page) ==
  [title |-> title, start_char |-> start_char, end_char |-> end_char,
   start_page |-> start_page, end_page |-> end_page]

SectionValid(sec) == sec.end_char > sec.start_char

\* title="Overview"
OverviewTitle == <<"O","v","e","r","v","i","e","w">>

\* title="Full Note"
FullNoteTitle == <<"F","u","l","l"," ","N","o","t","e">>

\* the Overview section of create_sections_from_headers, when overview_end > 0
OverviewSections(overview_end, spans) ==
  IF overview_end > 0
  THEN <<Section(OverviewTitle, 0, overview_end,
                 char_span_to_page(0, overview_end, spans) - 1,
                 char_span_to_page(overview_end - 1, overview_end, spans) - 1)>>
  ELSE <<>>

\* HeaderSection with every section running to the end of the document
HeaderSection_ToDocumentEnd(s, filtered_headers, i, spans) ==
  Section(Strip(filtered_headers[i].header), filtered_headers[i].pos, Len(s),
          char_span_to_page(filtered_headers[i].pos, Len(s), spans) - 1,
          char_span_to_page(Len(s) - 1, Len(s), spans) - 1)

\* the section of filtered_headers[i]
HeaderSection(s, filtered_headers, i, spans) ==
  LET start_pos == filtered_headers[i].pos
      end_pos == IF i + 1 <= Len(filtered_headers)
                 THEN filtered_headers[i + 1].pos ELSE Len(s)
  IN  Section(Strip(filtered_headers[i].header), start_pos, end_pos,
              char_span_to_page(start_pos, end_pos, spans) - 1,
              char_span_to_page(end_pos - 1, end_pos, spans) - 1)

\* create_sections_from_headers with the Overview appended after the header sections
create_sections_from_headers_OverviewLast(s, headers, overview_end, spans) ==
  LET filtered_headers == SelectSeq(headers, LAMBDA h : h.pos >= overview_end)
  IN  [i \in 1..Len(filtered_headers) |-> HeaderSection(s, filtered_headers, i, spans)]
      \o OverviewSections(overview_end, spans)

\* create_sections_from_headers(text, headers, overview_end, canonical_note)
create_sections_from_headers(s, headers, overview_end, spans) ==
  LET filtered_headers == SelectSeq(headers, LAMBDA h : h.pos >= overview_end)
  IN  OverviewSections(overview_end, spans)
      \o [i \in 1..Len(filtered_headers) |-> HeaderSection(s, filtered_headers, i, spans)]

\* the Step 5 fallback of detect_sections
FullNoteSection(s, spans) ==
  Section(FullNoteTitle, 0, Len(s), 0,
          IF spans # <<>> THEN Len(spans) - 1 ELSE 0)

\* detect_sections(canonical_note, file_path, config): the sections, and raised
\* when a Section(...) it constructs is rejected by the validator
detect_sections(s, spans) ==
  LET ov == detect_overview_section(s, 0)
      headers == find_section_headers_in_text(s, ov.overview_end)
      built == create_sections_from_headers(s, headers, ov.overview_end, spans)
      sections == IF built = <<>> THEN <<FullNoteSection(s, spans)>> ELSE built
  IN  [raised |-> \E i \in 1..Len(sections) : ~SectionValid(sections[i]),
       sections |-> sections]

\* ------------------------------------------------------------------------
\* app/chunks.py
\* ------------------------------------------------------------------------

\* split_into_paragraphs(text): split on "\n\n", strip, drop the empty ones
split_into_paragraphs(s) ==
  SelectSeq([i \in 1..Len(Split(s, <<"\n", "\n">>)) |-> Strip(Split(s, <<"\n", "\n">>)[i])],
            LAMBDA p : p # <<>>)

SentenceEnd == {".", "!", "?"}

\* the offset of the leftmost match of r'([.!?])\s+' in s, or -1
SentenceBreak(s) ==
  LET hits == {i \in 0..(Len(s) - 2) : s[i + 1] \in SentenceEnd /\ IsSpace(s[i + 2])}
  IN  IF hits = {} THEN -1 ELSE SetMin(hits)

\* re.split(r'([.!?])\s+', s): text, punctuation, text, punctuation, ..., text
RECURSIVE SplitSentences(_)
SplitSentences(s) ==
  LET i == SentenceBreak(s)
  IN  IF i < 0 THEN <<s>>
      ELSE LET rest == From(s, i + 1)
           IN  <<Slice(s, 0, i), <<s[i + 1]>>>>
               \o SplitSentences(From(rest, LeadingSpace(rest)))

\* Reconstructed without the text after the last sentence end
Reconstructed_NoTail(sentences) ==
  [k \in 1..((Len(sentences) - 1) \div 2) |-> sentences[2 * k - 1] \o sentences[2 * k]]

\* the list "reconstructed": each text with the punctuation that ended it
Reconstructed(sentences) ==
  [k \in 1..((Len(sentences) - 1) \div 2) |-> sentences[2 * k - 1] \o sentences[2 * k]]
  \o (IF Len(sentences) % 2 = 1 THEN <<sentences[Len(sentences)]>> ELSE <<>>)

\* the merge loop of split_long_paragraph from sentence k on:
\* acc is [chunks, current_chunk]
RECURSIVE MergeSentences(_, _, _, _)
MergeSentences(reconstructed, k, max_size, acc) ==
  IF k > Len(reconstructed) THEN acc
  ELSE LET sentence == Strip(reconstructed[k])
           cur == acc.current_chunk
       IN  IF sentence = <<>>
           THEN MergeSentences(reconstructed, k + 1, max_size, acc)
           ELSE IF cur # <<>> /\ Len(cur) + Len(sentence) + 1 > max_size
           THEN MergeSentences(reconstructed, k + 1, max_size,
                  [chunks |-> Append(acc.chunks, Strip(cur)), current_chunk |-> sentence])
           ELSE MergeSentences(reconstructed, k + 1, max_size,
                  [chunks |-> acc.chunks,
                   current_chunk |-> IF cur # <<>> THEN cur \o <<" ">> \o sentence
                                     ELSE sentence])

\* split_long_paragraph(paragraph, max_size)
split_long_paragraph(paragraph, max_size) ==
  IF Len(paragraph) <= max_size THEN <<paragraph>>
  ELSE LET merged == MergeSentences(Reconstructed(SplitSentences(paragraph)), 1, max_size,
                                    [chunks |-> <<>>, current_chunk |-> <<>>])
           chunks == IF merged.current_chunk # <<>>
                     THEN Append(merged.chunks, Strip(merged.current_chunk))
                     ELSE merged.chunks
       IN  IF chunks # <<>> THEN chunks ELSE <<paragraph>>

\* processed_paragraphs of create_chunks_from_section
RECURSIVE ProcessedParagraphs(_, _)
ProcessedParagraphs(paragraphs, max_paragraph_size) ==
  IF paragraphs = <<>> THEN <<>>
  ELSE (IF Len(Head(paragraphs)) > max_paragraph_size
        THEN split_long_paragraph(Head(paragraphs), max_paragraph_size)
        ELSE <<Head(paragraphs)>>)
       \o ProcessedParagraphs(Tail(paragraphs), max_paragraph_size)

\* Chunk(...): the record, and whether validate_end_after_start accepts it.
\* chunk_id f"{prefix}_{n}" is the pair <<prefix, n>>.
Chunk(chunk_id, chunk_text, start_char, end_char, section_title) ==
  [chunk_id |-> chunk_id, text |-> chunk_text, start_char |-> start_char,
   end_char |-> end_char, section_title |-> section_title]

ChunkValid_Unchecked(c) == TRUE

ChunkValid(c) == c.end_char > c.start_char

\* section.title.lower().replace(' ', '_')
TitleSlug(title) ==
  [i \in 1..Len(title) |-> IF title[i] = " " THEN "_" ELSE ToLower(title[i])]

\* OverlapText taking one character more than chunk_overlap
OverlapText_OneMore(current_chunk, chunk_overlap) ==
  IF chunk_overlap > 0 /\ Len(current_chunk) > chunk_overlap
  THEN Last(current_chunk, chunk_overlap + 1)
  ELSE <<>>

\* the overlap carried into the chunk opened after current_chunk is closed:
\* the last chunk_overlap characters, cut forward to just after their first space
\* when that space is not their first character; <<>> when nothing is carried
OverlapText(current_chunk, chunk_overlap) ==
  IF chunk_overlap > 0 /\ Len(current_chunk) > chunk_overlap
  THEN LET overlap_text == Last(current_chunk, chunk_overlap)
           overlap_start == Find(overlap_text, <<" ">>)
       IN  IF overlap_start > 0 THEN From(overlap_text, overlap_start + 1)
           ELSE overlap_text
  ELSE <<>>

\* whether the overlap branch (lines 158-165) is taken
CarriesOverlap(current_chunk, chunk_overlap) ==
  chunk_overlap > 0 /\ Len(current_chunk) > chunk_overlap

\* chunk_end_char of a chunk closed inside the loop
ClosedChunkEnd(section, section_text, current_chunk) ==
  section.start_char + Len(Slice(section_text, 0, Len(current_chunk)))


\* ------------------------------------------------------------------------
\* app/evaluation.py: parse_citation_from_text
\* ------------------------------------------------------------------------

\* Optional[T]: None is the empty sequence, a value v is <<v>>
None == <<>>

Some(v) == <<v>>

\* sub in s.lower(), sub given in upper case
ContainsCI(s, sub) == \E i \in 0..(Len(s) - Len(sub)) : StartsWithAtCI(s, i, sub)

\* the length of the longest run of digits starting at offset i: a greedy \d+
RECURSIVE DigitRun(_, _)
DigitRun(s, i) ==
  IF i < Len(s) /\ s[i + 1] \in DigitSet THEN 1 + DigitRun(s, i + 1) ELSE 0

DigitValue(c) ==
  CASE c = "0" -> 0 [] c = "1" -> 1 [] c = "2" -> 2 [] c = "3" -> 3 [] c = "4" -> 4
    [] c = "5" -> 5 [] c = "6" -> 6 [] c = "7" -> 7 [] c = "8" -> 8 [] c = "9" -> 9

\* int(digits)
RECURSIVE IntOf(_)
IntOf(digits) ==
  IF digits = <<>> THEN 0
  ELSE 10 * IntOf(SubSeq(digits, 1, Len(digits) - 1)) + DigitValue(digits[Len(digits)])

ChunkPrefix == <<"c","h","u","n","k","_">>

SectionWord == <<"s","e","c","t","i","o","n">>

\* r'chunk_(\d+)' matches at offset i
ChunkTokenAt(s, i) == StartsWithAt(s, i, ChunkPrefix) /\ DigitRun(s, i + Len(ChunkPrefix)) > 0

\* (?:\s+section)?[,\(] matches at offset k
SectionTailAt(s, k) ==
  \/ k < Len(s) /\ s[k + 1] \in {",", "("}
  \/ \E w \in 1..(Len(s) - k) :
       /\ \A j \in 1..w : IsSpace(s[k + j])
       /\ StartsWithAt(s, k + w, SectionWord)
       /\ k + w + Len(SectionWord) < Len(s)
       /\ s[k + w + Len(SectionWord) + 1] \in {",", "("}

\* the lengths group 1 of r'^([A-Z][A-Z\s]+?)(?:\s+section)?[,\(]' can take
SectionGroupLens(s) ==
  {k \in 2..Len(s) :
     /\ s[1] \in UpperSet
     /\ \A j \in 2..k : s[j] \in UpperSet \/ IsSpace(s[j])
     /\ SectionTailAt(s, k)}

\* lines 62-65: the lazy +? takes the shortest group; the name is stripped
SectionNameOf(s) ==
  IF SectionGroupLens(s) = {} THEN None
  ELSE Some(Strip(Slice(s, 0, SetMin(SectionGroupLens(s)))))

\* (?::(\d+)-(\d+))? matches non-emptily at offset j: the lengths of its groups
SpanSuffixAt(s, j) ==
  LET d2 == DigitRun(s, j + 1)
      d3 == DigitRun(s, j + d2 + 2)
  IN  IF /\ j < Len(s) /\ s[j + 1] = ":"
         /\ d2 > 0
         /\ j + d2 + 1 < Len(s) /\ s[j + d2 + 2] = "-"
         /\ d3 > 0
      THEN Some(<<d2, d3>>)
      ELSE None

\* ChunkSpanOf reading the last chunk token of the text instead of the first
ChunkSpanOf_LastToken(s, section_name) ==
  LET i == CHOOSE p \in 0..Len(s) :
             ChunkTokenAt(s, p) /\ \A q \in 0..Len(s) : ChunkTokenAt(s, q) => q <= p
      a == i + Len(ChunkPrefix)
      d1 == DigitRun(s, a)
  IN  [chunk_id |-> ChunkPrefix \o Slice(s, a, a + d1),
       start_char |-> None,
       end_char |-> None,
       section_name |-> section_name]

\* lines 68-73, at the leftmost match of r'chunk_(\d+)(?::(\d+)-(\d+))?'
ChunkSpanOf(s, section_name) ==
  LET i == SetMin({p \in 0..Len(s) : ChunkTokenAt(s, p)})
      a == i + Len(ChunkPrefix)
      d1 == DigitRun(s, a)
      suffix == SpanSuffixAt(s, a + d1)
  IN  [chunk_id |-> ChunkPrefix \o Slice(s, a, a + d1),
       start_char |-> IF suffix = None THEN None
                      ELSE Some(IntOf(Slice(s, a + d1 + 1, a + d1 + 1 + suffix[1][1]))),
       end_char |-> IF suffix = None THEN None
                    ELSE Some(IntOf(Slice(s, a + d1 + 2 + suffix[1][1],
                                          a + d1 + 2 + suffix[1][1] + suffix[1][2]))),
       section_name |-> section_name]

\* parse_citation_from_text: None, or Some of the tuple it returns.  The second
\* search (lines 75-79) runs only when the first found nothing, and then finds
\* nothing either: both need chunk_ followed by a digit.
parse_citation_from_text(citation_text) ==
  LET s == Strip(citation_text)
  IN  IF s = <<>> \/ ContainsCI(s, <<"N","O","N","E">>) THEN None
      ELSE IF \E p \in 0..Len(s) : ChunkTokenAt(s, p)
      THEN Some(ChunkSpanOf(s, SectionNameOf(s)))
      ELSE None

\* ------------------------------------------------------------------------
\* app/evaluation.py: calculate_jaccard_similarity
\* ------------------------------------------------------------------------

\* a float that is a quotient of two counts, kept exact: num / den, den > 0
Ratio(n, d) == [num |-> n, den |-> d]

\* intersection over the first span's length instead of over the union
calculate_jaccard_similarity_OverFirstSpan(sp1, sp2) ==
  LET intersection_start == Max(sp1[1], sp2[1])
      intersection_end == Min(sp1[2], sp2[2])
  IN  IF intersection_start >= intersection_end THEN Ratio(0, 1)
      ELSE Ratio(intersection_end - intersection_start, sp1[2] - sp1[1])

\* a span is the tuple (start_char, end_char)
calculate_jaccard_similarity(sp1, sp2) ==
  LET intersection_start == Max(sp1[1], sp2[1])
      intersection_end == Min(sp1[2], sp2[2])
      intersection == intersection_end - intersection_start
      union_start == Min(sp1[1], sp2[1])
      union_end == Max(sp1[2], sp2[2])
      union == union_end - union_start
  IN  IF intersection_start >= intersection_end THEN Ratio(0, 1)
      ELSE IF union = 0 THEN Ratio(0, 1)
      ELSE Ratio(intersection, union)

\* ------------------------------------------------------------------------
\* app/evaluation.py: the validators and evaluate_summary_and_plan
\* ------------------------------------------------------------------------

\* validate_citation_span without the test start_char >= end_char
validate_citation_span_EmptyAllowed(start_char, end_char, text_length) ==
  IF start_char = None \/ end_char = None THEN TRUE
  ELSE IF start_char[1] < 0 \/ end_char[1] < 0 THEN FALSE
  ELSE IF end_char[1] > text_length THEN FALSE
  ELSE TRUE

\* validate_citation_span; start_char and end_char are Optional
validate_citation_span(start_char, end_char, text_length) ==
  IF start_char = None \/ end_char = None THEN TRUE
  ELSE IF start_char[1] < 0 \/ end_char[1] < 0 THEN FALSE
  ELSE IF start_char[1] >= end_char[1] THEN FALSE
  ELSE IF end_char[1] > text_length THEN FALSE
  ELSE TRUE

\* validate_section_name; cited_section_name is Optional
validate_section_name(cited_section_name, chunk_section_title) ==
  IF cited_section_name = None THEN TRUE
  ELSE Upper(Strip(cited_section_name[1])) = Upper(Strip(chunk_section_title))

\* [item for item in items if item.get("source")]
WithSource(items) == SelectSeq(items, LAMBDA item : item.source # <<>>)

\* chunk_map = {chunk.chunk_id: chunk for chunk in chunks}: the last chunk of
\* an id is the one kept
InChunkMap(chunk_list, chunk_id) ==
  \E k \in 1..Len(chunk_list) : chunk_list[k].chunk_id = chunk_id

ChunkOf(chunk_list, chunk_id) ==
  chunk_list[CHOOSE k \in 1..Len(chunk_list) :
               /\ chunk_list[k].chunk_id = chunk_id
               /\ \A j \in (k + 1)..Len(chunk_list) : chunk_list[j].chunk_id # chunk_id]

\* lines 684-716 for one parsed citation: what the loop body adds to the counters
CheckCitation(info, chunk_list, length) ==
  IF ~InChunkMap(chunk_list, info.chunk_id)
  THEN [invalid |-> TRUE, section_mismatch |-> FALSE, span_out_of_bounds |-> FALSE]
  ELSE LET chunk == ChunkOf(chunk_list, info.chunk_id)
           has_span == info.start_char # None /\ info.end_char # None
           mismatch == /\ info.section_name # None
                       /\ ~validate_section_name(info.section_name, chunk.section_title)
           outside == /\ has_span
                      /\ \/ info.start_char[1] < chunk.start_char
                         \/ info.end_char[1] > chunk.end_char
           beyond == IF has_span
                     THEN ~validate_citation_span(info.start_char, info.end_char, length)
                     ELSE chunk.start_char < 0 \/ chunk.end_char > length
       IN  [invalid |-> mismatch \/ outside \/ beyond,
            section_mismatch |-> mismatch,
            span_out_of_bounds |-> outside]

\* the citations the validity loops look at: the parsed sources of the items
\* that have one, in order, each with the outcome of its check
CheckedCitations(items, chunk_list, length) ==
  LET with_source == WithSource(items)
      parsed == SelectSeq([k \in 1..Len(with_source) |->
                             parse_citation_from_text(with_source[k].source)],
                          LAMBDA info : info # None)
  IN  [k \in 1..Len(parsed) |->
         [info |-> parsed[k][1],
          check |-> CheckCitation(parsed[k][1], chunk_list, length)]]

\* the number of entries of a sequence of booleans that are true
CountTrue(flags) == Cardinality({k \in 1..Len(flags) : flags[k]})

\* n / d * 100 if d else sentinel (lines 657-669, 759-762, 857-860, 905-908)
PercentOr_Unguarded(n, d, sentinel) == Ratio(100 * n, d)

PercentOr(n, d, sentinel) == IF d > 0 THEN Ratio(100 * n, d) ELSE sentinel

\* a division by zero raises ZeroDivisionError
Raises(ratio) == ratio.den = 0

\* round(x, digits) with scale = 10 ** digits, in units of 1 / scale; no
\* quotient of the explored counts lies halfway between two such values
Round(ratio, scale) ==
  IF Raises(ratio) THEN 0
  ELSE (2 * scale * ratio.num + ratio.den) \div (2 * ratio.den)

\* lines 774-815: the span each resolvable citation stands for
CitedSpans(checked, chunk_list) ==
  LET resolvable == SelectSeq(checked, LAMBDA c : InChunkMap(chunk_list, c.info.chunk_id))
  IN  [k \in 1..Len(resolvable) |->
         LET info == resolvable[k].info
             chunk == ChunkOf(chunk_list, info.chunk_id)
         IN  IF info.start_char # None /\ info.end_char # None
             THEN <<info.start_char[1], info.end_char[1]>>
             ELSE <<chunk.start_char, chunk.end_char>>]

\* lines 819-824: the score of every pair i < j, in loop order
RECURSIVE PairScores(_)
PairScores(spans) ==
  IF Len(spans) < 2 THEN <<>>
  ELSE [k \in 1..(Len(spans) - 1) |-> calculate_jaccard_similarity(spans[1], spans[k + 1])]
       \o PairScores(Tail(spans))

\* sum(jaccard_scores)
RECURSIVE SumRatios(_)
SumRatios(ratios) ==
  IF ratios = <<>> THEN Ratio(0, 1)
  ELSE LET rest == SumRatios(Tail(ratios))
       IN  Ratio(ratios[1].num * rest.den + rest.num * ratios[1].den,
                 ratios[1].den * rest.den)

\* min(jaccard_scores) / max(jaccard_scores) of a non-empty list, rounded
LeastRatio(ratios) ==
  LET k == CHOOSE i \in 1..Len(ratios) :
             \A j \in 1..Len(ratios) :
               ratios[i].num * ratios[j].den <= ratios[j].num * ratios[i].den
  IN  ratios[k]

GreatestRatio(ratios) ==
  LET k == CHOOSE i \in 1..Len(ratios) :
             \A j \in 1..Len(ratios) :
               ratios[i].num * ratios[j].den >= ratios[j].num * ratios[i].den
  IN  ratios[k]

\* lines 654-946 of evaluate_summary_and_plan, given what the validity loops
\* (lines 681-753) found for the summary and for the plan
\* Items and recommendations are the dicts of lines 645-648, of which only
\* "source" is read ("" when there is none).  The result holds the report, the
\* citations the validity loops checked, and whether a division raised.  The
\* semantic accuracy of the plan and the confidence statistics come from the
\* embedding service and the model's confidences and are left out.
EvaluationReport(items, recs, chunk_list, summary_checked, plan_checked) ==
  LET summary_items_with_source == WithSource(items)
      plan_recs_with_source == WithSource(recs)
      with_source == Len(summary_items_with_source) + Len(plan_recs_with_source)
      total_claims == Len(items) + Len(recs)
      summary_coverage == PercentOr(Len(summary_items_with_source), Len(items), Ratio(0, 1))
      plan_coverage == PercentOr(Len(plan_recs_with_source), Len(recs), Ratio(0, 1))
      overall_coverage == PercentOr(with_source, total_claims, Ratio(0, 1))
      checked == summary_checked \o plan_checked
      total_citations == Len(checked)
      invalid_citations == CountTrue([k \in 1..Len(checked) |-> checked[k].check.invalid])
      validity == PercentOr(total_citations - invalid_citations, total_citations,
                            Ratio(100, 1))
      summary_orphans == Len(items) - Len(summary_items_with_source)
      plan_orphans == Len(recs) - Len(plan_recs_with_source)
      hallucination_rate == PercentOr(summary_orphans + plan_orphans, total_claims,
                                      Ratio(0, 1))
      resolvable == SelectSeq(checked, LAMBDA c : InChunkMap(chunk_list, c.info.chunk_id))
      jaccard_scores == PairScores(CitedSpans(checked, chunk_list))
      avg_jaccard == IF jaccard_scores = <<>> THEN Ratio(0, 1)
                     ELSE Ratio(SumRatios(jaccard_scores).num,
                                SumRatios(jaccard_scores).den * Len(jaccard_scores))
      span_consistency_checks == Len(resolvable)
      span_consistency_passed ==
        CountTrue([k \in 1..Len(resolvable) |->
                     ChunkOf(chunk_list, resolvable[k].info.chunk_id).text # <<>>])
      span_consistency_rate == PercentOr(span_consistency_passed, span_consistency_checks,
                                         Ratio(0, 1))
  IN  [raised |-> \E r \in {summary_coverage, plan_coverage, overall_coverage, validity,
                            hallucination_rate, span_consistency_rate} : Raises(r),
       checked |-> checked,
       report |->
         [citation_coverage |->
            [summary_facts_with_citations |-> Len(summary_items_with_source),
             summary_total_facts |-> Len(items),
             summary_coverage_percentage |-> Round(summary_coverage, 100),
             plan_recommendations_with_citations |-> Len(plan_recs_with_source),
             plan_total_recommendations |-> Len(recs),
             plan_coverage_percentage |-> Round(plan_coverage, 100),
             overall_coverage_percentage |-> Round(overall_coverage, 100)],
          citation_validity |->
            [total_citations_checked |-> total_citations,
             invalid_citations |-> invalid_citations,
             validity_percentage |-> Round(validity, 100)],
          section_name_mismatches |->
            [summary |-> CountTrue([k \in 1..Len(summary_checked) |->
                                      summary_checked[k].check.section_mismatch]),
             plan |-> CountTrue([k \in 1..Len(plan_checked) |->
                                   plan_checked[k].check.section_mismatch])],
          span_out_of_chunk_bounds |->
            [summary |-> CountTrue([k \in 1..Len(summary_checked) |->
                                      summary_checked[k].check.span_out_of_bounds]),
             plan |-> CountTrue([k \in 1..Len(plan_checked) |->
                                   plan_checked[k].check.span_out_of_bounds])],
          orphan_claims |->
            [summary_orphans |-> summary_orphans,
             plan_orphans |-> plan_orphans,
             total_orphans |-> summary_orphans + plan_orphans,
             total_claims |-> total_claims,
             hallucination_rate_percentage |-> Round(hallucination_rate, 100)],
          citation_overlap_jaccard |->
            [total_citation_pairs |-> Len(jaccard_scores),
             average_jaccard_similarity |-> Round(avg_jaccard, 10000),
             min_jaccard |-> IF jaccard_scores = <<>> THEN None
                             ELSE Some(Round(LeastRatio(jaccard_scores), 10000)),
             max_jaccard |-> IF jaccard_scores = <<>> THEN None
                             ELSE Some(Round(GreatestRatio(jaccard_scores), 10000))],
          span_consistency |->
            [checks_performed |-> span_consistency_checks,
             checks_passed |-> span_consistency_passed,
             consistency_percentage |-> Round(span_consistency_rate, 100)],
          summary_statistics |->
            [total_facts_extracted |-> Len(items),
             total_recommendations_generated |-> Len(recs)]]]

\* evaluate_summary_and_plan from the extracted items on (lines 650-946): the
\* validity loops run once, the report is built from what they found
evaluate_summary_and_plan(items, recs, chunk_list, length) ==
  CHOOSE r \in {EvaluationReport(items, recs, chunk_list, summary_checked, plan_checked) :
                  summary_checked \in {CheckedCitations(items, chunk_list, length)},
                  plan_checked \in {CheckedCitations(recs, chunk_list, length)}} : TRUE

\* ------------------------------------------------------------------------
\* app/summarizer.py: deduplicate_facts
\* ------------------------------------------------------------------------

\* the regex class \w
WordChars == UpperSet \cup LowerSet \cup DigitSet \cup {"_"}

\* re.sub(r"\s+", " ", text)
RECURSIVE CollapseSpace(_)
CollapseSpace(s) ==
  IF s = <<>> THEN <<>>
  ELSE IF IsSpace(s[1])
  THEN <<" ">> \o CollapseSpace(From(s, LeadingSpace(s)))
  ELSE <<s[1]>> \o CollapseSpace(Tail(s))

\* normalize_text_for_dedup: lower case, [^\w\s] removed, whitespace collapsed,
\* stripped
normalize_text_for_dedup(t) ==
  LET lowered == [i \in 1..Len(t) |-> ToLower(t[i])]
      kept == SelectSeq(lowered, LAMBDA c : c \in WordChars \/ IsSpace(c))
  IN  Strip(CollapseSpace(kept))

\* set(s.split()) for a normalized s: its words are separated by single spaces
Words(s) ==
  LET parts == Split(s, <<" ">>)
  IN  {parts[i] : i \in 1..Len(parts)} \ {<<>>}

\* calculate_text_similarity: the Jaccard similarity of the two word sets
calculate_text_similarity(text1, text2) ==
  LET norm1 == normalize_text_for_dedup(text1)
      norm2 == normalize_text_for_dedup(text2)
      set1 == Words(norm1)
      set2 == Words(norm2)
  IN  IF norm1 = <<>> \/ norm2 = <<>> THEN Ratio(0, 1)
      ELSE IF set1 = {} \/ set2 = {} THEN Ratio(0, 1)
      ELSE Ratio(Cardinality(set1 \cap set2), Cardinality(set1 \cup set2))

\* calculate_span_overlap: the overlap as a share of the shorter citation
calculate_span_overlap(cit1, cit2) ==
  LET start_overlap == Max(cit1.start_char, cit2.start_char)
      end_overlap == Min(cit1.end_char, cit2.end_char)
      min_length == Min(cit1.end_char - cit1.start_char, cit2.end_char - cit2.start_char)
  IN  IF start_overlap >= end_overlap THEN Ratio(0, 1)
      ELSE IF min_length > 0 THEN Ratio(end_overlap - start_overlap, min_length)
      ELSE Ratio(0, 1)

\* ratio > n / d for a float ratio and the literal n / d
Exceeds(ratio, n, d) == ratio.num * d > n * ratio.den

\* lines 248-252: max_overlap > n / d
MaxOverlapExceeds(fact, existing_fact, n, d) ==
  \E i \in 1..Len(fact.citations), j \in 1..Len(existing_fact.citations) :
    Exceeds(calculate_span_overlap(fact.citations[i], existing_fact.citations[j]), n, d)

\* lines 245-254: the test under which the loop treats fact as a duplicate of
\* existing_fact; the overlap is only looked at once the texts are similar
IsDuplicateOf(fact, existing_fact) ==
  /\ Exceeds(calculate_text_similarity(fact.fact_text, existing_fact.fact_text), 9, 10)
  /\ \/ MaxOverlapExceeds(fact, existing_fact, 8, 10)
     \/ Exceeds(calculate_text_similarity(fact.fact_text, existing_fact.fact_text), 9, 10)

\* the new fact replacing the accepted one also when they have as many citations
Replaces_OnTie(fact, existing_fact) == Len(fact.citations) >= Len(existing_fact.citations)

\* line 256
Replaces(fact, existing_fact) == Len(fact.citations) > Len(existing_fact.citations)

\* list.remove(x): the list without its first element equal to x
RECURSIVE Remove(_, _)
Remove(list, x) ==
  IF list = <<>> THEN <<>>
  ELSE IF list[1] = x THEN Tail(list)
  ELSE <<list[1]>> \o Remove(Tail(list), x)

\* the first accepted fact the new one is a duplicate of (the loop breaks there)
FirstDuplicate(accepted, fact) ==
  LET hits == {k \in 1..Len(accepted) : IsDuplicateOf(fact, accepted[k])}
  IN  IF hits = {} THEN None ELSE Some(accepted[SetMin(hits)])

\* one iteration of the loop over facts (lines 239-265): the new deduplicated
Accepted(accepted, fact) ==
  LET existing_fact == FirstDuplicate(accepted, fact)
  IN  IF existing_fact = None THEN Append(accepted, fact)
      ELSE IF Replaces(fact, existing_fact[1])
      THEN Append(Remove(accepted, existing_fact[1]), fact)
      ELSE accepted

\* deduplicate_facts
RECURSIVE DedupFrom(_, _)
DedupFrom(accepted, remaining) ==
  IF remaining = <<>> THEN accepted
  ELSE DedupFrom(Accepted(accepted, Head(remaining)), Tail(remaining))

deduplicate_facts(fact_list) == DedupFrom(<<>>, fact_list)
\* ------------------------------------------------------------------------
\* The pipeline as a state machine: a canonical note goes through
\* detect_sections and then create_chunks_from_sections, one loop iteration
\* of create_chunks_from_section per step.
\* ------------------------------------------------------------------------

VARIABLES
  text,                 \* canonical_note.text
  page_spans,           \* canonical_note.page_spans
  config,               \* chunk_size, chunk_overlap, max_paragraph_size
  pc,                   \* where the run stands
  sections,             \* the list detect_sections returned
  sec_idx,              \* the section create_chunks_from_sections is at
  processed_paragraphs, \* of the current section
  para_idx,             \* the paragraph the loop is at
  current_chunk,        \* the running buffer
  current_start_char,
  chunk_idx,
  chunks,               \* the chunks of the current section
  all_chunks,
  global_chunk_idx,
  cur_log,              \* history: the overlap carried into the running buffer and
                        \*   the paragraphs added to it
  chunk_log,            \* history: cur_log of each chunk of the current section
  all_log               \* history: the same for all_chunks, with the section index

pipeline_vars ==
  <<text, page_spans, config, pc, sections, sec_idx, processed_paragraphs, para_idx,
    current_chunk, current_start_char, chunk_idx, chunks, all_chunks, global_chunk_idx,
    cur_log, chunk_log, all_log>>

\* ---- the state of the components run after chunking ----

VARIABLES
  citation_text,        \* the argument of parse_citation_from_text
  citation_info         \* what it returned

VARIABLES
  span1, span2,         \* the arguments of calculate_jaccard_similarity
  jaccard               \* what it returned

VARIABLES
  summary_items,        \* extract_items_from_structured_summary(structured_summary)
  plan_recommendations, \* extract_recommendations_from_structured_plan(structured_plan)
  eval_chunks,          \* the chunks given to evaluate_summary_and_plan
  text_length,          \* len(canonical_note.text)
  evaluation,           \* the report it returned, None before and when it raised
  citation_log          \* history: the citations its validity loops checked

VARIABLES
  facts,                \* the argument of deduplicate_facts
  fact_idx,             \* the fact its loop is at
  deduplicated,         \* its list of accepted facts
  dedup_log             \* history: what each iteration found and did

VARIABLES
  config_kwargs,        \* the keyword arguments of Config(...)
  info_data,            \* the fields validated so far (info.data)
  config_errors         \* the fields whose validation failed

VARIABLES
  mode_flags,           \* run_pipeline: toc_only, summary_only, plan_only, no_evaluation
  input_valid,          \* what validate_input_file finds
  ollama_available,     \* what check_ollama_availability finds
  existing_files,       \* the files in the output directory before the run
  written_files,        \* the files the run has written
  dir_created,          \* output_dir.mkdir has run
  chunks_exist,         \* the local chunks_exist
  canonical_note,       \* the local canonical_note: "unbound", "None" or "loaded"
  toc_sections,         \* the local sections: "None" or "loaded"
  structured_summary,   \* the local structured_summary: None or Some(items)
  structured_plan,      \* the local structured_plan: None or Some(recommendations)
  steps,                \* history: the steps the run has carried out
  exit_code             \* what run_pipeline returned, None while it runs

VARIABLES
  input_paths,          \* run_pipeline_batch: the documents of the batch
  workers,              \* its number of worker threads
  task_state,           \* where each document's process_one is
  task_dir,             \* the output directory each run_pipeline has opened
  task_exit,            \* what each run_pipeline returned
  batch_results,        \* the result map
  completed             \* the local completed

VARIABLES
  chunk_outcomes,       \* extract_summary: what extract_facts_from_chunk does per chunk
  max_chunk_failure_rate, \* config.max_chunk_failure_rate
  chunk_pos,            \* the chunk its loop is at
  failed_chunks,        \* the local failed_chunks
  all_facts,            \* the local all_facts
  summary_outcome       \* how extract_summary ended

VARIABLES
  max_retries,          \* LLMClient.call: self.max_retries
  system_message,       \* the argument system_message, None if not given
  return_text,          \* the argument return_text
  attempt,              \* the loop variable
  messages,             \* the local messages
  last_json_error,      \* the local last_json_error
  invoke_log,           \* history: the message list of each client.invoke
  call_outcome          \* how the call ended

citation_vars == <<citation_text, citation_info>>

jaccard_vars == <<span1, span2, jaccard>>

evaluation_vars ==
  <<summary_items, plan_recommendations, eval_chunks, text_length, evaluation,
    citation_log>>

dedup_vars == <<facts, fact_idx, deduplicated, dedup_log>>

construction_vars == <<config_kwargs, info_data, config_errors>>

run_vars ==
  <<mode_flags, input_valid, ollama_available, existing_files, written_files, dir_created,
    chunks_exist, canonical_note, toc_sections, structured_summary, structured_plan,
    steps, exit_code>>

batch_vars ==
  <<input_paths, workers, task_state, task_dir, task_exit, batch_results, completed>>

summary_vars ==
  <<chunk_outcomes, max_chunk_failure_rate, chunk_pos, failed_chunks, all_facts,
    summary_outcome>>

call_vars ==
  <<max_retries, system_message, return_text, attempt, messages, last_json_error,
    invoke_log, call_outcome>>

later_vars ==
  <<citation_vars, jaccard_vars, evaluation_vars, dedup_vars, construction_vars,
    run_vars, batch_vars, summary_vars, call_vars>>

\* the pipeline's variables other than pc
pipeline_rest ==
  <<text, page_spans, config, sections, sec_idx, processed_paragraphs, para_idx,
    current_chunk, current_start_char, chunk_idx, chunks, all_chunks, global_chunk_idx,
    cur_log, chunk_log, all_log>>

\* what a call of parse_citation_from_text leaves alone
except_citation ==
  <<pipeline_rest, jaccard_vars, evaluation_vars, dedup_vars, construction_vars,
    run_vars, batch_vars, summary_vars, call_vars>>

\* what a call of calculate_jaccard_similarity leaves alone
except_jaccard ==
  <<pipeline_rest, citation_vars, evaluation_vars, dedup_vars, construction_vars,
    run_vars, batch_vars, summary_vars, call_vars>>

\* what a call of evaluate_summary_and_plan leaves alone
except_evaluation ==
  <<pipeline_rest, citation_vars, jaccard_vars, dedup_vars, construction_vars,
    run_vars, batch_vars, summary_vars, call_vars>>

\* what deduplicate_facts leaves alone
except_dedup ==
  <<pipeline_rest, citation_vars, jaccard_vars, evaluation_vars, construction_vars,
    run_vars, batch_vars, summary_vars, call_vars>>

\* what the construction of a Config leaves alone
except_construction ==
  <<pipeline_rest, citation_vars, jaccard_vars, evaluation_vars, dedup_vars,
    run_vars, batch_vars, summary_vars, call_vars>>

\* what run_pipeline leaves alone
except_run ==
  <<pipeline_rest, citation_vars, jaccard_vars, evaluation_vars, dedup_vars,
    construction_vars, batch_vars, summary_vars, call_vars>>

\* what run_pipeline_batch leaves alone
except_batch ==
  <<pipeline_rest, citation_vars, jaccard_vars, evaluation_vars, dedup_vars,
    construction_vars, run_vars, summary_vars, call_vars>>

\* what extract_summary leaves alone
except_summary ==
  <<pipeline_rest, citation_vars, jaccard_vars, evaluation_vars, dedup_vars,
    construction_vars, run_vars, batch_vars, call_vars>>

\* what LLMClient.call leaves alone
except_call ==
  <<pipeline_rest, citation_vars, jaccard_vars, evaluation_vars, dedup_vars,
    construction_vars, run_vars, batch_vars, summary_vars>>

vars == <<pipeline_vars, later_vars>>

\* a component that has been given nothing
CitationIdle ==
  /\ citation_text = <<>>
  /\ citation_info = None

JaccardIdle ==
  /\ span1 = <<0, 0>>
  /\ span2 = <<0, 0>>
  /\ jaccard = Ratio(0, 1)

EvaluationIdle ==
  /\ summary_items = <<>>
  /\ plan_recommendations = <<>>
  /\ eval_chunks = <<>>
  /\ text_length = 0
  /\ evaluation = None
  /\ citation_log = <<>>

DedupIdle ==
  /\ facts = <<>>
  /\ fact_idx = 0
  /\ deduplicated = <<>>
  /\ dedup_log = <<>>

ConstructionIdle ==
  /\ config_kwargs = [chunk_size |-> None, chunk_overlap |-> None, max_paragraph_size |-> None]
  /\ info_data = [f \in {} |-> 0]
  /\ config_errors = {}

RunIdle ==
  /\ mode_flags = [toc_only |-> FALSE, summary_only |-> FALSE, plan_only |-> FALSE,
                   no_evaluation |-> FALSE]
  /\ input_valid = FALSE
  /\ ollama_available = FALSE
  /\ existing_files = {}
  /\ written_files = {}
  /\ dir_created = FALSE
  /\ chunks_exist = FALSE
  /\ canonical_note = "unbound"
  /\ toc_sections = "None"
  /\ structured_summary = None
  /\ structured_plan = None
  /\ steps = <<>>
  /\ exit_code = None

BatchIdle ==
  /\ input_paths = <<>>
  /\ workers = 0
  /\ task_state = <<>>
  /\ task_dir = <<>>
  /\ task_exit = <<>>
  /\ batch_results = {}
  /\ completed = 0

SummaryIdle ==
  /\ chunk_outcomes = <<>>
  /\ max_chunk_failure_rate = Ratio(0, 1)
  /\ chunk_pos = 0
  /\ failed_chunks = <<>>
  /\ all_facts = <<>>
  /\ summary_outcome = "none"

CallIdle ==
  /\ max_retries = 0
  /\ system_message = None
  /\ return_text = FALSE
  /\ attempt = 0
  /\ messages = <<>>
  /\ last_json_error = None
  /\ invoke_log = <<>>
  /\ call_outcome = "none"

\* every component but the named one has been given nothing
IdleExcept(component) ==
  /\ IF component = "citation" THEN TRUE ELSE CitationIdle
  /\ IF component = "jaccard" THEN TRUE ELSE JaccardIdle
  /\ IF component = "evaluation" THEN TRUE ELSE EvaluationIdle
  /\ IF component = "dedup" THEN TRUE ELSE DedupIdle
  /\ IF component = "construction" THEN TRUE ELSE ConstructionIdle
  /\ IF component = "run" THEN TRUE ELSE RunIdle
  /\ IF component = "batch" THEN TRUE ELSE BatchIdle
  /\ IF component = "summary" THEN TRUE ELSE SummaryIdle
  /\ IF component = "call" THEN TRUE ELSE CallIdle

LaterIdle == IdleExcept("pipeline")

\* ---- the documents and configurations explored ----

\* longest document of each family, in pieces
MaxSectionPieces == 4

MaxChunkPieces == 5

SectionPieces ==
  { <<"d","e","s","c","r","i","p","t","i","o","n">>,
    <<"P","L","A","N">>,
    <<"p","l","a","n">>,
    <<"a","b">>,
    <<"\n">>, <<" ">>, <<":">> }

ChunkPieces ==
  { <<"a">>, <<" ">>, <<".", " ">>, <<"\n","\n">> }

\* every concatenation of at most n pieces
RECURSIVE Documents(_, _)
Documents(pieces, n) ==
  IF n = 0 THEN {<<>>}
  ELSE LET shorter == Documents(pieces, n - 1)
       IN  shorter \cup {d \o p : d \in shorter, p \in pieces}

\* normalize_text leaves these unchanged: no run of three or more newlines
IsCanonical(s) == Find(s, <<"\n","\n","\n">>) < 0

\* the PageSpans ingestion builds for a document of n pages: one span for a
\* text file, consecutive non-empty spans for a PDF
PageSpans(s, n) ==
  [i \in 1..n |-> [start_char |-> ((i - 1) * Len(s)) \div n,
                   end_char |-> (i * Len(s)) \div n,
                   page_index |-> i - 1]]

PageCounts == {1, 2}

\* Config() defaults, and small settings under which short documents split
DefaultConfig == [chunk_size |-> 1500, chunk_overlap |-> 200, max_paragraph_size |-> 3000]

SmallConfigs ==
  { [chunk_size |-> cs, chunk_overlap |-> co, max_paragraph_size |-> mp] :
      cs \in {3, 6}, co \in {0, 3}, mp \in {3, 3000} }

\* Config.validate_chunk_overlap and the Field bounds
ConfigValid(c) ==
  /\ c.chunk_size > 0
  /\ c.chunk_overlap >= 0
  /\ c.max_paragraph_size > 0
  /\ c.chunk_overlap < c.chunk_size

\* nothing carried, no paragraph yet
NoLog == [overlap |-> <<>>, carried |-> FALSE, paragraphs |-> <<>>]

InitRun ==
  /\ pc = "detect"
  /\ sections = <<>>
  /\ sec_idx = 0
  /\ processed_paragraphs = <<>>
  /\ para_idx = 0
  /\ current_chunk = <<>>
  /\ current_start_char = 0
  /\ chunk_idx = 0
  /\ chunks = <<>>
  /\ all_chunks = <<>>
  /\ global_chunk_idx = 0
  /\ cur_log = NoLog
  /\ chunk_log = <<>>
  /\ all_log = <<>>

Init ==
  /\ \/ /\ text \in {d \in Documents(SectionPieces, MaxSectionPieces) : IsCanonical(d)}
        /\ page_spans \in {PageSpans(text, Min(n, Len(text))) : n \in PageCounts}
        /\ config = DefaultConfig
     \/ /\ text \in {d \in Documents(ChunkPieces, MaxChunkPieces) : IsCanonical(d)}
        /\ page_spans = PageSpans(text, Min(1, Len(text)))
        /\ config \in {c \in SmallConfigs : ConfigValid(c)}
  /\ InitRun
  /\ LaterIdle

\* ---- detect_sections ----

DetectSections ==
  /\ pc = "detect"
  /\ LET r == detect_sections(text, page_spans)
     IN  IF r.raised
         THEN pc' = "sections_error" /\ sections' = <<>> /\ sec_idx' = sec_idx
         ELSE pc' = "begin_section" /\ sections' = r.sections /\ sec_idx' = 1
  /\ UNCHANGED <<text, page_spans, config, processed_paragraphs, para_idx, current_chunk,
                 current_start_char, chunk_idx, chunks, all_chunks, global_chunk_idx,
                 cur_log, chunk_log, all_log>>
  /\ UNCHANGED later_vars

\* ---- create_chunks_from_section, lines 118-136 ----

SectionText(sec) == Slice(text, sec.start_char, sec.end_char)

BeginSection ==
  /\ pc = "begin_section"
  /\ processed_paragraphs' =
       ProcessedParagraphs(split_into_paragraphs(SectionText(sections[sec_idx])),
                           config.max_paragraph_size)
  /\ para_idx' = 1
  /\ current_chunk' = <<>>
  /\ current_start_char' = sections[sec_idx].start_char
  /\ chunk_idx' = 0
  /\ chunks' = <<>>
  /\ cur_log' = NoLog
  /\ chunk_log' = <<>>
  /\ pc' = "paragraphs"
  /\ UNCHANGED <<text, page_spans, config, sections, sec_idx, all_chunks,
                 global_chunk_idx, all_log>>
  /\ UNCHANGED later_vars

\* ---- one iteration of the loop over processed_paragraphs, lines 138-177 ----

\* the buffer is full: close the current chunk and open the next one
CloseAndOpen(section, para) ==
  LET chunk_end_char == ClosedChunkEnd(section, SectionText(section), current_chunk)
      closed == Chunk(<<TitleSlug(section.title), chunk_idx>>, Strip(current_chunk),
                      current_start_char, chunk_end_char, section.title)
      overlap_text == OverlapText(current_chunk, config.chunk_overlap)
  IN  IF ~ChunkValid(closed)
      THEN /\ pc' = "chunks_error"
           /\ UNCHANGED <<para_idx, current_chunk, current_start_char, chunk_idx, chunks,
                          cur_log, chunk_log>>
      ELSE /\ chunks' = Append(chunks, closed)
           /\ chunk_log' = Append(chunk_log, cur_log)
           /\ chunk_idx' = chunk_idx + 1
           /\ IF CarriesOverlap(current_chunk, config.chunk_overlap)
              THEN /\ current_chunk' = overlap_text \o <<"\n", "\n">> \o para
                   /\ current_start_char' = chunk_end_char - Len(overlap_text)
                   /\ cur_log' = [overlap |-> overlap_text, carried |-> TRUE,
                                  paragraphs |-> <<para>>]
              ELSE /\ current_chunk' = para
                   /\ current_start_char' = chunk_end_char
                   /\ cur_log' = [overlap |-> <<>>, carried |-> FALSE,
                                  paragraphs |-> <<para>>]
           /\ para_idx' = para_idx + 1
           /\ pc' = "paragraphs"

\* the paragraph fits: add it to the buffer
Accumulate(section, para) ==
  /\ IF current_chunk # <<>>
     THEN /\ current_chunk' = current_chunk \o para \o <<"\n", "\n">>
          /\ current_start_char' = current_start_char
     ELSE /\ current_chunk' = para
          /\ current_start_char' =
               IF Find(SectionText(section), para) >= 0
               THEN section.start_char + Find(SectionText(section), para)
               ELSE current_start_char
  /\ cur_log' = [cur_log EXCEPT !.paragraphs = Append(@, para)]
  /\ para_idx' = para_idx + 1
  /\ pc' = "paragraphs"
  /\ UNCHANGED <<chunk_idx, chunks, chunk_log>>

ProcessParagraph ==
  /\ pc = "paragraphs"
  /\ para_idx <= Len(processed_paragraphs)
  /\ LET para == processed_paragraphs[para_idx]
         section == sections[sec_idx]
     IN  IF current_chunk # <<>>
            /\ Len(current_chunk) + Len(para \o <<"\n", "\n">>) > config.chunk_size
         THEN CloseAndOpen(section, para)
         ELSE Accumulate(section, para)
  /\ UNCHANGED <<text, page_spans, config, sections, sec_idx, processed_paragraphs,
                 all_chunks, global_chunk_idx, all_log>>
  /\ UNCHANGED later_vars

\* ---- the final chunk and the return, lines 179-192 ----

FinalChunk ==
  /\ pc = "paragraphs"
  /\ para_idx > Len(processed_paragraphs)
  /\ LET section == sections[sec_idx]
         final == Chunk(<<TitleSlug(section.title), chunk_idx>>, Strip(current_chunk),
                        current_start_char, section.end_char, section.title)
     IN  IF current_chunk = <<>>
         THEN pc' = "assign_ids" /\ UNCHANGED <<chunks, chunk_log>>
         ELSE IF ~ChunkValid(final)
         THEN pc' = "chunks_error" /\ UNCHANGED <<chunks, chunk_log>>
         ELSE /\ chunks' = Append(chunks, final)
              /\ chunk_log' = Append(chunk_log, cur_log)
              /\ pc' = "assign_ids"
  /\ UNCHANGED <<text, page_spans, config, sections, sec_idx, processed_paragraphs,
                 para_idx, current_chunk, current_start_char, chunk_idx, all_chunks,
                 global_chunk_idx, cur_log, all_log>>
  /\ UNCHANGED later_vars

\* ---- create_chunks_from_sections, lines 225-232 ----

\* Renumbered with the counter starting again at 0 for every section
Renumbered_PerSection(section_chunks, first_idx) ==
  [k \in 1..Len(section_chunks) |->
     [section_chunks[k] EXCEPT !.chunk_id = <<<<"c","h","u","n","k">>, k - 1>>]]

\* chunk.chunk_id = f"chunk_{global_chunk_idx}" for each chunk of the section
Renumbered(section_chunks, first_idx) ==
  [k \in 1..Len(section_chunks) |->
     [section_chunks[k] EXCEPT !.chunk_id = <<<<"c","h","u","n","k">>, first_idx + k - 1>>]]

AssignChunkIds ==
  /\ pc = "assign_ids"
  /\ all_chunks' = all_chunks \o Renumbered(chunks, global_chunk_idx)
  /\ global_chunk_idx' = global_chunk_idx + Len(chunks)
  /\ all_log' = all_log \o [k \in 1..Len(chunks) |->
                              [section |-> sec_idx, overlap |-> chunk_log[k].overlap,
                               carried |-> chunk_log[k].carried,
                               paragraphs |-> chunk_log[k].paragraphs]]
  /\ IF sec_idx < Len(sections)
     THEN sec_idx' = sec_idx + 1 /\ pc' = "begin_section"
     ELSE sec_idx' = sec_idx /\ pc' = "done"
  /\ UNCHANGED <<text, page_spans, config, sections, processed_paragraphs, para_idx,
                 current_chunk, current_start_char, chunk_idx, chunks, cur_log, chunk_log>>
  /\ UNCHANGED later_vars

Next ==
  \/ DetectSections
  \/ BeginSection
  \/ ProcessParagraph
  \/ FinalChunk
  \/ AssignChunkIds

Spec == Init /\ [][Next]_vars

\* ------------------------------------------------------------------------
\* Properties
\* ------------------------------------------------------------------------

\* load_text_file and load_pdf reject a document whose text strips to nothing
Ingestible == Strip(text) # <<>>

\* detect_sections has returned its list
SectionsReturned == pc \notin {"detect", "sections_error"}

\* create_chunks_from_section has returned the chunks of sections[sec_idx]
SectionChunked == pc = "assign_ids"

\* sep.join(parts)
RECURSIVE Join(_, _)
Join(parts, sep) ==
  IF parts = <<>> THEN <<>>
  ELSE IF Len(parts) = 1 THEN parts[1]
  ELSE parts[1] \o sep \o Join(Tail(parts), sep)

IsSuffix(suffix, s) ==
  Len(suffix) <= Len(s) /\ From(s, Len(s) - Len(suffix)) = suffix

\* C1: the sections detect_sections returns are contiguous and cover the whole
\* document: the first starts at offset 0, each ends where the next starts, and
\* the last ends at len(text).  Stated of the documents ingestion accepts.
C1_SectionsCoverDocument ==
  (Ingestible /\ SectionsReturned) =>
    /\ sections[1].start_char = 0
    /\ \A i \in 1..(Len(sections) - 1) : sections[i].end_char = sections[i + 1].start_char
    /\ sections[Len(sections)].end_char = Len(text)

\* C2: round trip: the texts of a section's chunks, each without its
\* overlap-carryover prefix, concatenate to exactly the section's text.  Stated of
\* the documents ingestion accepts.
C2_RoundTrip ==
  (Ingestible /\ SectionChunked) =>
    Concat([k \in 1..Len(chunks) |-> From(chunks[k].text, Len(chunk_log[k].overlap))])
      = SectionText(sections[sec_idx])

\* C3: create_chunks_from_section completes without error, and every chunk it
\* returns has non-empty text and start_char < end_char.  Stated of the documents
\* ingestion accepts.
C3_ChunksWellFormed ==
  Ingestible =>
  /\ pc # "chunks_error"
  /\ \A k \in 1..Len(chunks) :
       chunks[k].text # <<>> /\ chunks[k].start_char < chunks[k].end_char

\* C4: a chunk opened right after another chunk of the same section was closed
\* carries over at most chunk_overlap characters, and its start_char is the closed
\* chunk's end_char minus the length of the carried text (the end_char itself when
\* nothing is carried).  Stated of the chunks emitted so far and of the open buffer.
C4_OverlapWithinBound ==
  /\ \A k \in 2..Len(chunks) :
       /\ Len(chunk_log[k].overlap) <= config.chunk_overlap
       /\ chunks[k].start_char = chunks[k - 1].end_char - Len(chunk_log[k].overlap)
       /\ ~chunk_log[k].carried => chunks[k].start_char = chunks[k - 1].end_char
  /\ (pc = "paragraphs" /\ chunks # <<>>) =>
       /\ Len(cur_log.overlap) <= config.chunk_overlap
       /\ current_start_char = chunks[Len(chunks)].end_char - Len(cur_log.overlap)

\* C4 witness: a second chunk was emitted that carries a non-empty overlap cut
\* forward to a word boundary (shorter than chunk_overlap).
C4_Witness ==
  /\ Len(chunks) >= 2
  /\ chunk_log[2].carried
  /\ chunk_log[2].overlap # <<>>
  /\ Len(chunk_log[2].overlap) < config.chunk_overlap

\* C5: in every chunk's text, consecutive paragraphs accumulated into the chunk
\* are separated by a blank line: the text ends with the paragraphs joined by "\n\n".
\* Stated of the documents ingestion accepts.
C5_ParagraphsSeparated ==
  Ingestible =>
  \A k \in 1..Len(chunks) :
    IsSuffix(Join(chunk_log[k].paragraphs, <<"\n", "\n">>), chunks[k].text)

\* C6: every section passed to create_chunks_from_sections yields at least one
\* chunk, and every returned chunk carries the title of the section it was cut from.
\* Stated of the documents ingestion accepts, once create_chunks_from_sections has
\* returned or raised.
C6_EverySectionChunked ==
  (Ingestible /\ pc \in {"done", "chunks_error"}) =>
    /\ \A i \in 1..Len(sections) : \E k \in 1..Len(all_chunks) : all_log[k].section = i
    /\ \A k \in 1..Len(all_chunks) :
         all_chunks[k].section_title = sections[all_log[k].section].title

\* C7: the i-th chunk of the list create_chunks_from_sections builds (0-based,
\* sections in input order, chunks in emission order) has chunk_id "chunk_i": ids
\* are pairwise distinct, start at chunk_0 and increase by one without gaps.
C7_ChunkIdsOrdinal ==
  /\ \A i \in 1..Len(all_chunks) :
       all_chunks[i].chunk_id = <<<<"c","h","u","n","k">>, i - 1>>
  /\ \A i, j \in 1..Len(all_chunks) :
       /\ i < j => all_log[i].section <= all_log[j].section
       /\ i # j => all_chunks[i].chunk_id # all_chunks[j].chunk_id

\* C7 witness: a finished run over two or more sections, with more chunks than sections.
C7_Witness ==
  /\ pc = "done"
  /\ Len(sections) >= 2
  /\ Len(all_chunks) >= 2
  /\ all_log[Len(all_chunks)].section = Len(sections)

C9_SectionsOrdered ==
  SectionsReturned =>
    /\ \A i \in 1..Len(sections) : sections[i].start_char < sections[i].end_char
    /\ \A i \in 1..(Len(sections) - 1) : sections[i].end_char <= sections[i + 1].start_char

\* C9 witness: a document without Overview in which two headers were found.
C9_Witness ==
  /\ SectionsReturned
  /\ Len(sections) >= 2
  /\ sections[1].title # OverviewTitle

\* C10: detect_sections never raises, and with neither an Overview nor a header
\* candidate it returns exactly one section "Full Note" from 0 to len(text), on
\* pages 0 to (number of page spans - 1).
C10_FullNoteFallbackNeverRaises ==
  /\ pc # "sections_error"
  /\ (/\ SectionsReturned
      /\ detect_overview_section(text, 0).overview_end = 0
      /\ find_section_headers_in_text(text, 0) = <<>>) =>
       sections = <<Section(FullNoteTitle, 0, Len(text), 0, Len(page_spans) - 1)>>

\* ------------------------------------------------------------------------
\* parse_citation_from_text as a state machine: one call on one text
\* ------------------------------------------------------------------------

\* the pipeline has been given nothing
PipelineIdle ==
  /\ text = <<>>
  /\ page_spans = <<>>
  /\ config = DefaultConfig
  /\ sections = <<>>
  /\ sec_idx = 0
  /\ processed_paragraphs = <<>>
  /\ para_idx = 0
  /\ current_chunk = <<>>
  /\ current_start_char = 0
  /\ chunk_idx = 0
  /\ chunks = <<>>
  /\ all_chunks = <<>>
  /\ global_chunk_idx = 0
  /\ cur_log = NoLog
  /\ chunk_log = <<>>
  /\ all_log = <<>>

\* longest citation text, in pieces
MaxCitationPieces == 4

CitationPieces ==
  { <<"P","L","A","N">>,
    <<"O","v","e","r","v","i","e","w">>,
    <<" ","s","e","c","t","i","o","n">>,
    <<",", " ">>,
    <<" ", "(">>,
    <<"c","h","u","n","k","_","1">>,
    <<"c","h","u","n","k","_">>,
    <<":","2","-","3">>,
    <<":","2","-">>,
    <<"0">>,
    <<"N","o","n","e">>,
    <<" ">> }

InitCitation ==
  /\ pc = "parse_citation"
  /\ PipelineIdle
  /\ IdleExcept("citation")
  /\ citation_text \in Documents(CitationPieces, MaxCitationPieces)
  /\ citation_info = None

ParseCitation ==
  /\ pc = "parse_citation"
  /\ citation_info' = parse_citation_from_text(citation_text)
  /\ pc' = "citation_parsed"
  /\ UNCHANGED <<except_citation, citation_text>>

NextCitation == ParseCitation

SpecCitation == InitCitation /\ [][NextCitation]_vars

\* parse_citation_from_text has returned
CitationParsed == pc = "citation_parsed"

\* C13: parse_citation_from_text returns None exactly when the trimmed text is
\* empty, contains "none" in any case, or holds no token chunk_<digits>;
\* otherwise the id it returns is the first such token, and start_char and
\* end_char are the integers of a ":<digits>-<digits>" suffix that follows the
\* token at once, or both None when there is no such suffix.
C13_ParseContract ==
  CitationParsed =>
    LET s == Strip(citation_text)
        Digits(a, n) == a + n <= Len(s) /\ \A j \in 1..n : s[a + j] \in DigitSet
        Ends(a) == a >= Len(s) \/ s[a + 1] \notin DigitSet
        tokens == {p \in 0..Len(s) : StartsWithAt(s, p, ChunkPrefix)
                                     /\ Digits(p + Len(ChunkPrefix), 1)}
        no_citation == s = <<>> \/ ContainsCI(s, <<"N","O","N","E">>) \/ tokens = {}
    IN  /\ (citation_info = None) <=> no_citation
        /\ ~no_citation =>
             LET p == SetMin(tokens)
                 r == citation_info[1]
                 e == p + Len(r.chunk_id)
                 suffixes == {xy \in (1..Len(s)) \X (1..Len(s)) :
                                /\ e < Len(s) /\ s[e + 1] = ":"
                                /\ Digits(e + 1, xy[1])
                                /\ e + xy[1] + 1 < Len(s) /\ s[e + xy[1] + 2] = "-"
                                /\ Digits(e + xy[1] + 2, xy[2])
                                /\ Ends(e + xy[1] + 2 + xy[2])}
             IN  /\ Len(r.chunk_id) > Len(ChunkPrefix)
                 /\ StartsWithAt(s, p, r.chunk_id)
                 /\ Digits(p + Len(ChunkPrefix), Len(r.chunk_id) - Len(ChunkPrefix))
                 /\ Ends(e)
                 /\ IF suffixes = {}
                    THEN r.start_char = None /\ r.end_char = None
                    ELSE \E xy \in suffixes :
                           /\ r.start_char = Some(IntOf(Slice(s, e + 1, e + 1 + xy[1])))
                           /\ r.end_char = Some(IntOf(Slice(s, e + xy[1] + 2,
                                                            e + xy[1] + 2 + xy[2])))

\* a text with two chunk tokens, whose first carries a span of several digits
C13_Witness ==
  /\ CitationParsed
  /\ citation_info # None
  /\ citation_info[1].chunk_id = <<"c","h","u","n","k","_","1">>
  /\ citation_info[1].start_char = Some(2)
  /\ citation_info[1].end_char = Some(30)
  /\ \E p \in 1..Len(citation_text) : ChunkTokenAt(citation_text, p)

\* C14: when the text begins with a capitalized phrase (a capital letter, then
\* letters and spaces) followed by "," or "(", with the word "section" optionally
\* in between, section_name is that phrase, trimmed; otherwise it is None.
C14_SectionNameCaptured ==
  (CitationParsed /\ citation_info # None) =>
    LET s == Strip(citation_text)
        phrases == {k \in 1..Len(s) :
                      /\ s[1] \in UpperSet
                      /\ \A j \in 2..k : s[j] \in UpperSet \cup LowerSet \/ IsSpace(s[j])
                      /\ SectionTailAt(s, k)}
    IN  citation_info[1].section_name =
          IF phrases = {} THEN None ELSE Some(Strip(Slice(s, 0, SetMin(phrases))))

\* ------------------------------------------------------------------------
\* calculate_jaccard_similarity as a state machine: one call on two spans
\* ------------------------------------------------------------------------

\* largest offset of a span
MaxSpanEnd == 3

\* every pair of offsets, among them empty and reversed spans
Spans == (0..MaxSpanEnd) \X (0..MaxSpanEnd)

InitJaccard ==
  /\ pc = "jaccard"
  /\ PipelineIdle
  /\ IdleExcept("jaccard")
  /\ span1 \in Spans
  /\ span2 \in Spans
  /\ jaccard = Ratio(0, 1)

CalculateJaccard ==
  /\ pc = "jaccard"
  /\ jaccard' = calculate_jaccard_similarity(span1, span2)
  /\ pc' = "jaccard_done"
  /\ UNCHANGED <<except_jaccard, span1, span2>>

NextJaccard == CalculateJaccard

SpecJaccard == InitJaccard /\ [][NextJaccard]_vars

\* calculate_jaccard_similarity has returned
JaccardReturned == pc = "jaccard_done"

\* the offsets a span covers: none when it is empty or reversed
Covered(span) == {x \in 0..MaxSpanEnd : span[1] <= x /\ x < span[2]}

\* C15: the result is the length of the intersection over the length of the
\* union: 0 when the spans share nothing or one of them is empty, 1 exactly
\* when two non-empty spans are the same, (min end - max start) / (max end -
\* min start) in between; it is the same for (span2, span1) and lies in [0, 1].
C15_JaccardIsIntersectionOverUnion ==
  JaccardReturned =>
    LET both == Covered(span1) \cap Covered(span2)
        either == Covered(span1) \cup Covered(span2)
        swapped == calculate_jaccard_similarity(span2, span1)
    IN  /\ jaccard.den > 0
        /\ 0 <= jaccard.num /\ jaccard.num <= jaccard.den
        /\ both = {} => jaccard.num = 0
        /\ both # {} =>
             /\ jaccard.num * Cardinality(either) = Cardinality(both) * jaccard.den
             /\ jaccard.num * (Max(span1[2], span2[2]) - Min(span1[1], span2[1]))
                  = (Min(span1[2], span2[2]) - Max(span1[1], span2[1])) * jaccard.den
        /\ (jaccard.num = jaccard.den) <=> (span1 = span2 /\ span1[1] < span1[2])
        /\ jaccard.num * swapped.den = swapped.num * jaccard.den

\* two spans that overlap in part
C15_Witness ==
  /\ JaccardReturned
  /\ 0 < jaccard.num
  /\ jaccard.num < jaccard.den
  /\ span1[1] < span2[1]

\* ------------------------------------------------------------------------
\* evaluate_summary_and_plan as a state machine: one call on the items of a
\* summary and a plan, a chunk list and a document length
\* ------------------------------------------------------------------------

\* most items, facts and recommendations together
MaxItems == 2

\* every sequence of at most n elements of S
RECURSIVE SeqsUpTo(_, _)
SeqsUpTo(S, n) ==
  IF n = 0 THEN {<<>>}
  ELSE LET shorter == SeqsUpTo(S, n - 1)
       IN  shorter \cup {Append(q, x) : q \in shorter, x \in S}

\* sources: none, one that is no citation, an unknown chunk, and chunk_0 with
\* and without a section name and a span
EvalSources ==
  { <<>>,
    <<"N","o","n","e"," ","m","e","n","t","i","o","n","e","d">>,
    <<"c","h","u","n","k","_","1">> }
  \cup
  { prefix \o <<"c","h","u","n","k","_","0">> \o suffix :
      prefix \in { <<>>, <<"P","L","A","N",","," ">> },
      suffix \in { <<>>, <<":","1","-","3">>, <<":","2","-","2">>, <<":","0","-","4">> } }

\* one chunk, chunk_0, inside or reaching past the document
EvalChunkLists ==
  { << [chunk_id |-> <<"c","h","u","n","k","_","0">>,
        text |-> <<"a","b">>,
        start_char |-> span[1],
        end_char |-> span[2],
        section_title |-> title] >> :
      span \in { <<1, 3>>, <<0, 4>> },
      title \in { <<" ","P","l","a","n">>, <<"H","P","I">> } }

InitEvaluation ==
  /\ pc = "evaluate"
  /\ PipelineIdle
  /\ IdleExcept("evaluation")
  /\ summary_items \in SeqsUpTo({[source |-> s] : s \in EvalSources}, MaxItems)
  /\ plan_recommendations \in
       SeqsUpTo({[source |-> s] : s \in EvalSources}, MaxItems - Len(summary_items))
  /\ eval_chunks \in EvalChunkLists
  /\ text_length \in {3, 4}
  /\ evaluation = None
  /\ citation_log = <<>>

Evaluate ==
  /\ pc = "evaluate"
  /\ \E r \in {evaluate_summary_and_plan(summary_items, plan_recommendations,
                                          eval_chunks, text_length)} :
         /\ evaluation' = IF r.raised THEN None ELSE Some(r.report)
         /\ citation_log' = r.checked
         /\ pc' = IF r.raised THEN "evaluation_error" ELSE "evaluated"
  /\ UNCHANGED <<except_evaluation, summary_items, plan_recommendations, eval_chunks,
                 text_length>>

NextEvaluation == Evaluate

SpecEvaluation == InitEvaluation /\ [][NextEvaluation]_vars

\* evaluate_summary_and_plan has returned its report
Evaluated == pc = "evaluated"

\* the number of items whose source parses to a citation
Cited(items) ==
  Cardinality({k \in 1..Len(items) : parse_citation_from_text(items[k].source) # None})

\* C11 as claimed: a checked citation is counted valid exactly when its chunk is
\* in the chunk list, it has no span or both ends of its span lie within the
\* chunk's [start_char, end_char] and within [0, document length], and it has no
\* section name or the name equals the chunk's section_title, both trimmed and
\* with case ignored.
C11_ValidIffExistsInBoundsAndSectionMatches ==
  Evaluated =>
    \A k \in 1..Len(citation_log) :
      LET info == citation_log[k].info
          chunk == ChunkOf(eval_chunks, info.chunk_id)
          Within(x, lo, hi) == lo <= x /\ x <= hi
      IN  ~citation_log[k].check.invalid <=>
            /\ InChunkMap(eval_chunks, info.chunk_id)
            /\ \/ info.start_char = None
               \/ /\ Within(info.start_char[1], chunk.start_char, chunk.end_char)
                  /\ Within(info.end_char[1], chunk.start_char, chunk.end_char)
                  /\ Within(info.start_char[1], 0, text_length)
                  /\ Within(info.end_char[1], 0, text_length)
            /\ \/ info.section_name = None
               \/ Upper(Strip(info.section_name[1])) = Upper(Strip(chunk.section_title))

\* C11 amended: a checked citation is counted valid, and invalid_citations
\* counts the others, exactly when its chunk is in the chunk list, its section
\* name (if any) matches, and either it has a span that is non-empty and lies
\* within both the chunk and the document, or it has no span and the chunk
\* itself lies within the document.
C11_ValidIffNonEmptySpanInBounds ==
  Evaluated =>
    /\ \A k \in 1..Len(citation_log) :
         LET info == citation_log[k].info
             chunk == ChunkOf(eval_chunks, info.chunk_id)
         IN  ~citation_log[k].check.invalid <=>
               /\ InChunkMap(eval_chunks, info.chunk_id)
               /\ IF info.start_char # None
                  THEN /\ chunk.start_char <= info.start_char[1]
                       /\ info.start_char[1] < info.end_char[1]
                       /\ info.end_char[1] <= chunk.end_char
                       /\ info.end_char[1] <= text_length
                  ELSE 0 <= chunk.start_char /\ chunk.end_char <= text_length
               /\ \/ info.section_name = None
                  \/ Upper(Strip(info.section_name[1])) = Upper(Strip(chunk.section_title))
    /\ evaluation[1].citation_validity.invalid_citations =
         Cardinality({k \in 1..Len(citation_log) : citation_log[k].check.invalid})

\* a valid citation with a section name and a span next to an invalid one
C11_Witness ==
  /\ Evaluated
  /\ \E k \in 1..Len(citation_log) :
       /\ ~citation_log[k].check.invalid
       /\ citation_log[k].info.start_char # None
       /\ citation_log[k].info.section_name # None
  /\ \E k \in 1..Len(citation_log) :
       /\ citation_log[k].check.invalid
       /\ citation_log[k].info.start_char = Some(2)

\* C12: an item whose source does not parse to a citation is uncited: only the
\* items whose source parses count towards coverage, and the others are the
\* orphan claims.
C12_UnparsedSourceIsUncited ==
  Evaluated =>
    LET c == evaluation[1].citation_coverage
        o == evaluation[1].orphan_claims
    IN  /\ c.summary_facts_with_citations = Cited(summary_items)
        /\ c.plan_recommendations_with_citations = Cited(plan_recommendations)
        /\ o.summary_orphans = Len(summary_items) - Cited(summary_items)
        /\ o.plan_orphans = Len(plan_recommendations) - Cited(plan_recommendations)

\* C16: no division raises, and an empty family has coverage 0, no items at all
\* give overall coverage 0 and hallucination rate 0, and no citation checked
\* gives validity 100 (percentages in hundredths of a percent).
C16_ZeroDenominatorsHaveSentinels ==
  /\ pc # "evaluation_error"
  /\ Evaluated =>
       LET r == evaluation[1]
       IN  /\ summary_items = <<>> => r.citation_coverage.summary_coverage_percentage = 0
           /\ plan_recommendations = <<>> => r.citation_coverage.plan_coverage_percentage = 0
           /\ (summary_items = <<>> /\ plan_recommendations = <<>>) =>
                /\ r.citation_coverage.overall_coverage_percentage = 0
                /\ r.orphan_claims.hallucination_rate_percentage = 0
           /\ r.citation_validity.total_citations_checked = 0 =>
                r.citation_validity.validity_percentage = 10000

\* no item at all: every denominator is zero
C16_Witness ==
  /\ Evaluated
  /\ summary_items = <<>>
  /\ plan_recommendations = <<>>
  /\ evaluation[1].citation_validity.validity_percentage = 10000

\* ------------------------------------------------------------------------
\* deduplicate_facts as a state machine: one step per fact of the list
\* ------------------------------------------------------------------------

\* longest list of facts
MaxFacts == 3

\* a text of ten words, the same with an eleventh word, and a different text
TenWords ==
  <<"A"," ","b"," ","c"," ","d"," ","e"," ","f"," ","g"," ","h"," ","i",","," ","J",".">>

FactTexts == { TenWords, TenWords \o <<" ","k">>, TenWords \o <<" ","l">>, <<"x">> }

\* no citation, one, or two
CitationLists ==
  { <<>>,
    << [start_char |-> 0, end_char |-> 5] >>,
    << [start_char |-> 0, end_char |-> 5], [start_char |-> 6, end_char |-> 9] >> }

SpanFacts == {[fact_text |-> t, citations |-> c] : t \in FactTexts, c \in CitationLists}

InitDedup ==
  /\ pc = "dedup"
  /\ PipelineIdle
  /\ IdleExcept("dedup")
  /\ facts \in SeqsUpTo(SpanFacts, MaxFacts)
  /\ fact_idx = 1
  /\ deduplicated = <<>>
  /\ dedup_log = <<>>

\* one iteration of the loop over facts
DedupStep ==
  /\ pc = "dedup"
  /\ fact_idx <= Len(facts)
  /\ deduplicated' = Accepted(deduplicated, facts[fact_idx])
  /\ dedup_log' = Append(dedup_log,
                         [fact |-> facts[fact_idx],
                          before |-> deduplicated,
                          existing_fact |-> FirstDuplicate(deduplicated, facts[fact_idx]),
                          after |-> deduplicated'])
  /\ fact_idx' = fact_idx + 1
  /\ UNCHANGED <<except_dedup, pc, facts>>

\* return deduplicated (for an empty list, return [])
DedupReturn ==
  /\ pc = "dedup"
  /\ fact_idx > Len(facts)
  /\ pc' = "deduplicated"
  /\ UNCHANGED <<except_dedup, facts, fact_idx, deduplicated, dedup_log>>

NextDedup ==
  \/ DedupStep
  \/ DedupReturn

SpecDedup == InitDedup /\ [][NextDedup]_vars

\* deduplicate_facts has returned deduplicated
Deduplicated == pc = "deduplicated"

\* how often x occurs in a list
Occurrences(list, x) == Cardinality({k \in 1..Len(list) : list[k] = x})

\* C17: deduplicate_facts applied to its own output returns that output, the
\* same facts in the same order, and no two facts of an output are duplicates
\* of each other.
C17_DedupIdempotent ==
  Deduplicated =>
    /\ deduplicate_facts(deduplicated) = deduplicated
    /\ \A i, j \in 1..Len(deduplicated) :
         i # j => ~IsDuplicateOf(deduplicated[i], deduplicated[j])

\* C18: a new fact is treated as a duplicate whenever, for some accepted fact,
\* their text similarity exceeds 0.9 or some pair of their citation spans
\* overlaps by more than 0.8 of the shorter span.
C18_SpanOverlapAloneSuffices ==
  \A n \in 1..Len(dedup_log) :
    LET e == dedup_log[n]
    IN  (\E k \in 1..Len(e.before) :
           \/ Exceeds(calculate_text_similarity(e.fact.fact_text, e.before[k].fact_text),
                      9, 10)
           \/ MaxOverlapExceeds(e.fact, e.before[k], 8, 10))
        => e.existing_fact # None

\* C19: when a new fact is found to be a duplicate of an accepted fact, the new
\* one takes the accepted one's place if it has strictly more citations and is
\* dropped otherwise, the rest of the list staying as it was; every accepted
\* fact is one of the input facts and there are never more of them than facts
\* looked at.
C19_OneOfTheTwoSurvives ==
  /\ \A n \in 1..Len(dedup_log) :
       LET e == dedup_log[n]
       IN  e.existing_fact # None =>
             LET old == e.existing_fact[1]
             IN  /\ Occurrences(e.before, old) > 0
                 /\ Len(e.after) = Len(e.before)
                 /\ IF Len(e.fact.citations) > Len(old.citations)
                    THEN /\ e.after[Len(e.after)] = e.fact
                         /\ Occurrences(e.after, e.fact) = Occurrences(e.before, e.fact) + 1
                         /\ Occurrences(e.after, old) = Occurrences(e.before, old) - 1
                         /\ \A k \in 1..Len(e.before) :
                              e.before[k] \notin {old, e.fact} =>
                                Occurrences(e.after, e.before[k])
                                  = Occurrences(e.before, e.before[k])
                    ELSE e.after = e.before
  /\ \A k \in 1..Len(deduplicated) : \E i \in 1..Len(facts) : deduplicated[k] = facts[i]
  /\ Len(deduplicated) <= Len(dedup_log)
  /\ Len(dedup_log) <= Len(facts)

\* a run in which one duplicate replaced the accepted fact and another, with as
\* many citations as the accepted one, was dropped
C19_Witness ==
  /\ Deduplicated
  /\ \E n \in 1..Len(dedup_log) :
       /\ dedup_log[n].existing_fact # None
       /\ Len(dedup_log[n].fact.citations) > Len(dedup_log[n].existing_fact[1].citations)
  /\ \E n \in 1..Len(dedup_log) :
       /\ dedup_log[n].existing_fact # None
       /\ Len(dedup_log[n].fact.citations) = Len(dedup_log[n].existing_fact[1].citations)

\* ------------------------------------------------------------------------
\* Config(...): the validation of the three chunking fields, in field order
\* ------------------------------------------------------------------------

\* Field(default=...) of chunk_size, chunk_overlap and max_paragraph_size
DefaultChunkSize == 1500

DefaultChunkOverlap == 200

DefaultMaxParagraphSize == 3000

\* values a caller may pass for a field, around zero and around the defaults
GivenInts == {-1, 0, 100, 200, 201}

\* a field is passed or left out
GivenOrOmitted == {None} \cup {Some(v) : v \in GivenInts}

\* info.data before any field is validated
NoData == [f \in {} |-> 0]

\* info.data with one more validated field
WithField(data, name, v) == [f \in DOMAIN data \cup {name} |-> IF f = name THEN v ELSE data[f]]

\* validate_chunk_overlap returns v (TRUE) or raises ValueError (FALSE)
validate_chunk_overlap(v, data) ==
  ~("chunk_size" \in DOMAIN data /\ v >= data["chunk_size"])

InitConfig ==
  /\ pc = "config_chunk_size"
  /\ PipelineIdle
  /\ IdleExcept("construction")
  /\ config_kwargs \in [chunk_size : GivenOrOmitted,
                        chunk_overlap : GivenOrOmitted,
                        max_paragraph_size : GivenOrOmitted]
  /\ info_data = NoData
  /\ config_errors = {}

\* chunk_size: int = Field(default=1500, gt=0); a default is taken as it is
ValidateChunkSize ==
  /\ pc = "config_chunk_size"
  /\ IF config_kwargs.chunk_size = None
     THEN /\ info_data' = WithField(info_data, "chunk_size", DefaultChunkSize)
          /\ UNCHANGED config_errors
     ELSE IF config_kwargs.chunk_size[1] > 0
     THEN /\ info_data' = WithField(info_data, "chunk_size", config_kwargs.chunk_size[1])
          /\ UNCHANGED config_errors
     ELSE /\ config_errors' = config_errors \cup {"chunk_size"}
          /\ UNCHANGED info_data
  /\ pc' = "config_chunk_overlap"
  /\ UNCHANGED <<except_construction, config_kwargs>>

\* chunk_overlap: int = Field(default=200, ge=0), then validate_chunk_overlap;
\* neither is applied to the default
ValidateChunkOverlap ==
  /\ pc = "config_chunk_overlap"
  /\ IF config_kwargs.chunk_overlap = None
     THEN /\ info_data' = WithField(info_data, "chunk_overlap", DefaultChunkOverlap)
          /\ UNCHANGED config_errors
     ELSE IF /\ config_kwargs.chunk_overlap[1] >= 0
             /\ validate_chunk_overlap(config_kwargs.chunk_overlap[1], info_data)
     THEN /\ info_data' = WithField(info_data, "chunk_overlap", config_kwargs.chunk_overlap[1])
          /\ UNCHANGED config_errors
     ELSE /\ config_errors' = config_errors \cup {"chunk_overlap"}
          /\ UNCHANGED info_data
  /\ pc' = "config_max_paragraph_size"
  /\ UNCHANGED <<except_construction, config_kwargs>>

\* max_paragraph_size: int = Field(default=3000, gt=0)
ValidateMaxParagraphSize ==
  /\ pc = "config_max_paragraph_size"
  /\ IF config_kwargs.max_paragraph_size = None
     THEN /\ info_data' = WithField(info_data, "max_paragraph_size", DefaultMaxParagraphSize)
          /\ UNCHANGED config_errors
     ELSE IF config_kwargs.max_paragraph_size[1] > 0
     THEN /\ info_data' = WithField(info_data, "max_paragraph_size",
                                    config_kwargs.max_paragraph_size[1])
          /\ UNCHANGED config_errors
     ELSE /\ config_errors' = config_errors \cup {"max_paragraph_size"}
          /\ UNCHANGED info_data
  /\ pc' = "config_fields_done"
  /\ UNCHANGED <<except_construction, config_kwargs>>

\* the Config is returned, or ValidationError is raised with the collected errors
ConfigReturn ==
  /\ pc = "config_fields_done"
  /\ pc' = IF config_errors = {} THEN "config_constructed" ELSE "config_validation_error"
  /\ UNCHANGED <<except_construction, construction_vars>>

NextConfig ==
  \/ ValidateChunkSize
  \/ ValidateChunkOverlap
  \/ ValidateMaxParagraphSize
  \/ ConfigReturn

SpecConfig == InitConfig /\ [][NextConfig]_vars

\* the value a field of the Config would have: the one passed, else the default
Requested(name, default) ==
  IF config_kwargs[name] = None THEN default ELSE config_kwargs[name][1]

\* C20: constructing a Config fails with a validation error whenever
\* chunk_overlap >= chunk_size, chunk_size <= 0, max_paragraph_size <= 0 or
\* chunk_overlap < 0, so that every constructed Config has
\* 0 <= chunk_overlap < chunk_size.
C20_ConstructedConfigHasOverlapBelowSize ==
  /\ (/\ pc \in {"config_constructed", "config_validation_error"}
      /\ \/ Requested("chunk_overlap", DefaultChunkOverlap)
              >= Requested("chunk_size", DefaultChunkSize)
         \/ Requested("chunk_size", DefaultChunkSize) <= 0
         \/ Requested("max_paragraph_size", DefaultMaxParagraphSize) <= 0
         \/ Requested("chunk_overlap", DefaultChunkOverlap) < 0)
     => pc = "config_validation_error"
  /\ pc = "config_constructed" =>
       /\ 0 <= info_data["chunk_overlap"]
       /\ info_data["chunk_overlap"] < info_data["chunk_size"]

\* ------------------------------------------------------------------------
\* Chunking of sections made of several short paragraphs
\* ------------------------------------------------------------------------

\* most paragraphs of a document
MaxParagraphs == 3

ParagraphKinds == { <<"a"," ","a"," ","a">>, <<"a","a">>, <<"a">> }

\* nothing, or a line of text and a header line before the first paragraph
DocumentPrefixes == { <<>>, <<"a","b","\n","P","L","A","N","\n">> }

ParagraphDocuments ==
  { prefix \o Join(paragraphs, <<"\n", "\n">>) :
      prefix \in DocumentPrefixes,
      paragraphs \in SeqsUpTo(ParagraphKinds, MaxParagraphs) \ {<<>>} }

\* settings under which these paragraphs fill a chunk, with and without overlap
ParagraphConfigs ==
  { [chunk_size |-> cs, chunk_overlap |-> co, max_paragraph_size |-> 3000] :
      cs \in {6, 8}, co \in {0, 3} }

InitParagraphs ==
  /\ text \in ParagraphDocuments
  /\ page_spans = PageSpans(text, 1)
  /\ config \in {c \in ParagraphConfigs : ConfigValid(c)}
  /\ InitRun
  /\ LaterIdle

SpecParagraphs == InitParagraphs /\ [][Next]_vars

\* ---- split_long_paragraph ----

\* create_chunks_from_section has built processed_paragraphs for sections[sec_idx]
ParagraphsProcessed == pc \in {"paragraphs", "assign_ids", "chunks_error"}

\* the pieces of s that end at the offsets in ends, from offset start on
RECURSIVE SegmentsFrom(_, _, _)
SegmentsFrom(s, start, ends) ==
  IF ends = {} THEN <<>>
  ELSE <<Strip(Slice(s, start, SetMin(ends)))>>
       \o SegmentsFrom(s, SetMin(ends), ends \ {SetMin(ends)})

\* the sentences of a paragraph: a sentence ends with a ".", "!" or "?" that is
\* followed by whitespace, or with the paragraph; each is stripped and the empty
\* ones are left out
SentencesOf(paragraph) ==
  SelectSeq(SegmentsFrom(paragraph, 0,
                         {i \in 1..(Len(paragraph) - 1) :
                            paragraph[i] \in SentenceEnd /\ IsSpace(paragraph[i + 1])}
                         \cup {Len(paragraph)}),
            LAMBDA s : s # <<>>)

\* C23: for a paragraph longer than max_size, the pieces split_long_paragraph
\* returns hold, in order, every sentence of the paragraph exactly once, and a
\* piece is longer than max_size only if it is a single sentence; a paragraph
\* without a sentence boundary, or no longer than max_size, comes back as one
\* piece, itself.  Stated of the paragraphs split_into_paragraphs finds.
C23_SplitKeepsEverySentence ==
  ParagraphsProcessed =>
    \A p \in {split_into_paragraphs(SectionText(sections[sec_idx]))[k] :
                k \in 1..Len(split_into_paragraphs(SectionText(sections[sec_idx])))} :
      \A pieces \in {split_long_paragraph(p, config.max_paragraph_size)} :
        /\ Len(p) > config.max_paragraph_size =>
             /\ Join(pieces, <<" ">>) = Join(SentencesOf(p), <<" ">>)
             /\ Len(pieces) <= Len(SentencesOf(p))
             /\ \A k \in 1..Len(pieces) :
                  /\ pieces[k] # <<>>
                  /\ Len(pieces[k]) > config.max_paragraph_size =>
                       \E j \in 1..Len(SentencesOf(p)) : pieces[k] = SentencesOf(p)[j]
        /\ (Len(p) <= config.max_paragraph_size \/ SentenceBreak(p) < 0) => pieces = <<p>>

\* a paragraph longer than max_size was split into several pieces, one of them
\* made of more than one sentence
C23_Witness ==
  /\ ParagraphsProcessed
  /\ \E k \in 1..Len(split_into_paragraphs(SectionText(sections[sec_idx]))) :
       \E p \in {split_into_paragraphs(SectionText(sections[sec_idx]))[k]} :
         \E pieces \in {split_long_paragraph(p, config.max_paragraph_size)} :
           /\ Len(p) > config.max_paragraph_size
           /\ Len(pieces) >= 2
           /\ Len(pieces) < Len(SentencesOf(p))

\* ---- create_chunks_from_section: the spans of the chunks ----

\* C26: within one section, every chunk emitted after another has an end_char
\* strictly greater than the end_char of the chunk before it.
C26_ChunkEndsAdvance ==
  \A k \in 2..Len(chunks) : chunks[k].end_char > chunks[k - 1].end_char

Needs_NoPreflight(f) ==
  [llm |-> FALSE,
   chunks |-> f.summary_only \/ f.plan_only \/ (~f.toc_only /\ ~f.no_evaluation),
   summary |-> f.summary_only \/ f.plan_only \/ (~f.toc_only /\ ~f.no_evaluation),
   plan |-> f.plan_only \/ (~f.toc_only /\ ~f.summary_only /\ ~f.no_evaluation),
   evaluation |-> ~f.toc_only /\ ~f.summary_only /\ ~f.plan_only /\ ~f.no_evaluation]

\* lines 190-195: what the mode flags ask for
Needs(f) ==
  [llm |-> f.summary_only \/ f.plan_only \/ (~f.toc_only /\ ~f.no_evaluation),
   chunks |-> f.summary_only \/ f.plan_only \/ (~f.toc_only /\ ~f.no_evaluation),
   summary |-> f.summary_only \/ f.plan_only \/ (~f.toc_only /\ ~f.no_evaluation),
   plan |-> f.plan_only \/ (~f.toc_only /\ ~f.summary_only /\ ~f.no_evaluation),
   evaluation |-> ~f.toc_only /\ ~f.summary_only /\ ~f.plan_only /\ ~f.no_evaluation]

\* the files of an earlier run that the run looks for
CachedFiles == {"chunks.json", "canonical_text.txt", "toc.json"}

\* the chunks of the document and its length, as the evaluation sees them
RunChunks ==
  << [chunk_id |-> <<"c","h","u","n","k","_","0">>, text |-> <<"a","b">>,
      start_char |-> 0, end_char |-> 4, section_title |-> <<"H","P","I">>] >>

RunTextLength == RunChunks[1].end_char

\* what the model may answer: items and recommendations with or without a source
RunItems == { [source |-> <<"c","h","u","n","k","_","0">>], [source |-> <<>>] }

RunSummaries == SeqsUpTo(RunItems, 2)

RunPlans == SeqsUpTo(RunItems, 1)

InitRunPipeline ==
  /\ pc = "run_preflight"
  /\ PipelineIdle
  /\ IdleExcept("run")
  /\ mode_flags \in [toc_only : BOOLEAN, summary_only : BOOLEAN, plan_only : BOOLEAN,
                     no_evaluation : BOOLEAN]
  /\ input_valid \in BOOLEAN
  /\ ollama_available \in BOOLEAN
  /\ existing_files \in SUBSET CachedFiles
  /\ written_files = {}
  /\ dir_created = FALSE
  /\ chunks_exist = FALSE
  /\ canonical_note = "unbound"
  /\ toc_sections = "None"
  /\ structured_summary = None
  /\ structured_plan = None
  /\ steps = <<>>
  /\ exit_code = None

\* lines 177-218: the input file is validated, the mode worked out and, when
\* the mode needs the model, Ollama checked
RunPreflight ==
  /\ pc = "run_preflight"
  /\ IF ~input_valid
     THEN /\ exit_code' = Some(1) /\ pc' = "run_returned"
          /\ UNCHANGED steps
     ELSE IF Needs(mode_flags).llm
     THEN /\ steps' = Append(steps, "check_ollama")
          /\ IF ollama_available
             THEN pc' = "run_open_output" /\ UNCHANGED exit_code
             ELSE exit_code' = Some(1) /\ pc' = "run_returned"
     ELSE /\ pc' = "run_open_output"
          /\ UNCHANGED <<steps, exit_code>>
  /\ UNCHANGED <<except_run, mode_flags, input_valid, ollama_available, existing_files,
                 written_files, dir_created, chunks_exist, canonical_note, toc_sections,
                 structured_summary, structured_plan>>

\* lines 220-280: the output directory and the log file are made, and what an
\* earlier run left is loaded; each load can fail
RunOpenOutput ==
  /\ pc = "run_open_output"
  /\ dir_created' = TRUE
  /\ written_files' = written_files \cup {"pipeline.log"}
  /\ IF "chunks.json" \in existing_files /\ Needs(mode_flags).chunks
     THEN \E chunks_loaded, note_loaded, toc_loaded \in BOOLEAN :
            IF ~chunks_loaded
            THEN /\ chunks_exist' = FALSE
                 /\ canonical_note' = "None"
                 /\ toc_sections' = "None"
            ELSE /\ chunks_exist' = ~("canonical_text.txt" \in existing_files /\ ~note_loaded)
                 /\ canonical_note' = IF "canonical_text.txt" \notin existing_files
                                      THEN "unbound"
                                      ELSE IF note_loaded THEN "loaded" ELSE "None"
                 /\ toc_sections' = IF "toc.json" \in existing_files /\ toc_loaded
                                    THEN "loaded" ELSE "None"
     ELSE /\ chunks_exist' = FALSE
          /\ canonical_note' = "None"
          /\ toc_sections' = "None"
  /\ pc' = "run_ingest"
  /\ UNCHANGED <<except_run, mode_flags, input_valid, ollama_available, existing_files,
                 structured_summary, structured_plan, steps, exit_code>>

\* lines 282-293, step 1: ingest_document, which can raise
RunIngest ==
  /\ pc = "run_ingest"
  /\ IF chunks_exist
     THEN /\ pc' = "run_sections"
          /\ UNCHANGED <<canonical_note, written_files, steps, exit_code>>
     ELSE \E ingested \in BOOLEAN :
            IF ingested
            THEN /\ canonical_note' = "loaded"
                 /\ written_files' = written_files \cup {"canonical_text.txt"}
                 /\ steps' = Append(steps, "ingest")
                 /\ pc' = "run_sections"
                 /\ UNCHANGED exit_code
            ELSE /\ exit_code' = Some(1) /\ pc' = "run_returned"
                 /\ UNCHANGED <<canonical_note, written_files, steps>>
  /\ UNCHANGED <<except_run, mode_flags, input_valid, ollama_available, existing_files,
                 dir_created, chunks_exist, toc_sections, structured_summary,
                 structured_plan>>

\* lines 295-326, step 2: detect_sections and save_toc, then the return of
\* the toc_only mode
RunDetectSections ==
  /\ pc = "run_sections"
  /\ IF ~chunks_exist \/ toc_sections = "None"
     THEN \E detected \in BOOLEAN :
            IF canonical_note = "loaded" /\ detected
            THEN /\ toc_sections' = "loaded"
                 /\ written_files' = written_files \cup {"toc.json"}
                 /\ steps' = Append(steps, "toc")
                 /\ IF mode_flags.toc_only
                    THEN exit_code' = Some(0) /\ pc' = "run_returned"
                    ELSE pc' = "run_chunks" /\ UNCHANGED exit_code
            ELSE /\ exit_code' = Some(1) /\ pc' = "run_returned"
                 /\ UNCHANGED <<toc_sections, written_files, steps>>
     ELSE /\ IF mode_flags.toc_only
             THEN exit_code' = Some(0) /\ pc' = "run_returned"
             ELSE pc' = "run_chunks" /\ UNCHANGED exit_code
          /\ UNCHANGED <<toc_sections, written_files, steps>>
  /\ UNCHANGED <<except_run, mode_flags, input_valid, ollama_available, existing_files,
                 dir_created, chunks_exist, canonical_note, structured_summary,
                 structured_plan>>

\* lines 328-346, step 3: create_chunks_from_sections and save_chunks
RunCreateChunks ==
  /\ pc = "run_chunks"
  /\ IF chunks_exist
     THEN /\ pc' = "run_summary"
          /\ UNCHANGED <<written_files, steps, exit_code>>
     ELSE \E created \in BOOLEAN :
            IF created
            THEN /\ written_files' = written_files \cup {"chunks.json"}
                 /\ steps' = Append(steps, "chunks")
                 /\ pc' = "run_summary"
                 /\ UNCHANGED exit_code
            ELSE /\ exit_code' = Some(1) /\ pc' = "run_returned"
                 /\ UNCHANGED <<written_files, steps>>
  /\ UNCHANGED <<except_run, mode_flags, input_valid, ollama_available, existing_files,
                 dir_created, chunks_exist, canonical_note, toc_sections,
                 structured_summary, structured_plan>>

\* lines 348-374, step 4: the summary, then the return of the summary_only mode
RunSummary ==
  /\ pc = "run_summary"
  /\ IF Needs(mode_flags).summary
     THEN \E summarized \in BOOLEAN, items \in RunSummaries :
            IF summarized
            THEN /\ structured_summary' = Some(items)
                 /\ written_files' = written_files \cup {"summary.json"}
                 /\ steps' = Append(steps, "summary")
                 /\ IF mode_flags.summary_only
                    THEN exit_code' = Some(0) /\ pc' = "run_returned"
                    ELSE pc' = "run_plan" /\ UNCHANGED exit_code
            ELSE /\ exit_code' = Some(1) /\ pc' = "run_returned"
                 /\ UNCHANGED <<structured_summary, written_files, steps>>
     ELSE /\ IF mode_flags.summary_only
             THEN exit_code' = Some(0) /\ pc' = "run_returned"
             ELSE pc' = "run_plan" /\ UNCHANGED exit_code
          /\ UNCHANGED <<structured_summary, written_files, steps>>
  /\ UNCHANGED <<except_run, mode_flags, input_valid, ollama_available, existing_files,
                 dir_created, chunks_exist, canonical_note, toc_sections, structured_plan>>

\* lines 376-440, step 5: the plan, then the returns of the plan_only and
\* no_evaluation modes; a plan is only asked for in a mode that has just made
\* the summary, so the summary is at hand (lines 387-404 are not reached)
RunPlan ==
  /\ pc = "run_plan"
  /\ IF Needs(mode_flags).plan
     THEN \E planned \in BOOLEAN, recommendations \in RunPlans :
            IF structured_summary # None /\ planned
            THEN /\ structured_plan' = Some(recommendations)
                 /\ written_files' = written_files \cup {"plan.json"}
                 /\ steps' = Append(steps, "plan")
                 /\ IF mode_flags.plan_only \/ mode_flags.no_evaluation
                    THEN exit_code' = Some(0) /\ pc' = "run_returned"
                    ELSE pc' = "run_evaluation" /\ UNCHANGED exit_code
            ELSE /\ exit_code' = Some(1) /\ pc' = "run_returned"
                 /\ UNCHANGED <<structured_plan, written_files, steps>>
     ELSE /\ IF mode_flags.plan_only \/ mode_flags.no_evaluation
             THEN exit_code' = Some(0) /\ pc' = "run_returned"
             ELSE pc' = "run_evaluation" /\ UNCHANGED exit_code
          /\ UNCHANGED <<structured_plan, written_files, steps>>
  /\ UNCHANGED <<except_run, mode_flags, input_valid, ollama_available, existing_files,
                 dir_created, chunks_exist, canonical_note, toc_sections,
                 structured_summary>>

\* line 484 formats min_jaccard and max_jaccard with ":.4f", which raises
\* TypeError for None
DisplayRaises(report) ==
  \/ report.citation_overlap_jaccard.min_jaccard = None
  \/ report.citation_overlap_jaccard.max_jaccard = None

\* lines 442-513, step 6: the evaluation is computed, saved and displayed; an
\* evaluation is only asked for in the mode that has just made the summary and
\* the plan.  Any exception ends the run with exit code 1.  The evaluation
\* reads structured_summary.assessment (evaluation.py line 103), an attribute
\* the summaries of evaluation.py, planner.py, summarizer.py and the tests
\* have and the StructuredSummary of schemas.py (concise_assessment) lacks:
\* has_assessment is which of the two the run was given.
RunEvaluation ==
  /\ pc = "run_evaluation"
  /\ IF ~Needs(mode_flags).evaluation
     THEN /\ exit_code' = Some(0)
          /\ UNCHANGED <<written_files, steps>>
     ELSE IF canonical_note # "loaded" \/ structured_summary = None \/ structured_plan = None
     THEN /\ exit_code' = Some(1)
          /\ UNCHANGED <<written_files, steps>>
     ELSE \E has_assessment \in BOOLEAN,
             r \in {evaluate_summary_and_plan(structured_summary[1], structured_plan[1],
                                              RunChunks, RunTextLength)} :
            IF ~has_assessment \/ r.raised
            THEN /\ exit_code' = Some(1)
                 /\ UNCHANGED <<written_files, steps>>
            ELSE /\ written_files' = written_files \cup {"evaluation.json"}
                 /\ steps' = Append(steps, "evaluation")
                 /\ exit_code' = IF DisplayRaises(r.report) THEN Some(1) ELSE Some(0)
  /\ pc' = "run_returned"
  /\ UNCHANGED <<except_run, mode_flags, input_valid, ollama_available, existing_files,
                 dir_created, chunks_exist, canonical_note, toc_sections,
                 structured_summary, structured_plan>>

NextRunPipeline ==
  \/ RunPreflight
  \/ RunOpenOutput
  \/ RunIngest
  \/ RunDetectSections
  \/ RunCreateChunks
  \/ RunSummary
  \/ RunPlan
  \/ RunEvaluation

SpecRunPipeline == InitRunPipeline /\ [][NextRunPipeline]_vars

\* the run has returned
RunReturned == pc = "run_returned" /\ exit_code # None

\* the stages of the run that produce an artefact, in the order they ran
StagesRun ==
  LET Produces(s) == s \in {"toc", "chunks", "summary", "plan", "evaluation"}
  IN SelectSeq(steps, Produces)

\* the mode flags, one set and the others clear
OnlyNoEvaluation ==
  /\ mode_flags.no_evaluation
  /\ ~mode_flags.toc_only /\ ~mode_flags.summary_only /\ ~mode_flags.plan_only

TocOnlyMode ==
  /\ mode_flags.toc_only
  /\ ~mode_flags.summary_only /\ ~mode_flags.plan_only

FullMode ==
  /\ ~mode_flags.toc_only /\ ~mode_flags.summary_only
  /\ ~mode_flags.plan_only /\ ~mode_flags.no_evaluation

\* C21: a run with no_evaluation set and no other mode flag that returns 0
\* has generated the TOC, the chunks, the summary and the plan, in that
\* order, and has skipped only the evaluation.
C21_NoEvaluationSkipsOnlyEvaluation ==
  (RunReturned /\ OnlyNoEvaluation /\ exit_code = Some(0))
    => StagesRun = <<"toc", "chunks", "summary", "plan">>

\* C22: when the Ollama check fails in a mode that generates a summary or a
\* plan, the run returns 1 with no document ingested and no output directory
\* or file created; in toc_only mode the check is never made, so the outcome
\* cannot depend on it, and a toc_only run that returns 0 has written
\* canonical_text.txt and toc.json but no chunks.json.
C22_OllamaFailureStopsBeforeOutput ==
  /\ (/\ RunReturned /\ input_valid /\ ~ollama_available
      /\ (Needs(mode_flags).summary \/ Needs(mode_flags).plan))
       => /\ exit_code = Some(1)
          /\ steps = <<"check_ollama">>
          /\ ~dir_created
          /\ written_files = {}
  /\ TocOnlyMode => \A i \in 1..Len(steps) : steps[i] # "check_ollama"
  /\ (RunReturned /\ TocOnlyMode /\ exit_code = Some(0))
       => /\ {"canonical_text.txt", "toc.json"} \subseteq written_files
          /\ "chunks.json" \notin written_files

\* a run that was to generate a plan, stopped by the failed check
C22_Witness ==
  /\ RunReturned /\ input_valid /\ ~ollama_available
  /\ Needs(mode_flags).plan
  /\ exit_code = Some(1) /\ steps = <<"check_ollama">>

\* a toc_only run that succeeds although Ollama is unavailable
C22_WitnessTocOnly ==
  /\ RunReturned /\ TocOnlyMode /\ ~ollama_available /\ exit_code = Some(0)
  /\ written_files = {"pipeline.log", "canonical_text.txt", "toc.json"}

\* C28: a full run (no mode flag) that has produced the summary, the plan
\* and the evaluation and has saved evaluation.json returns 0, also when
\* fewer than two citations resolve.
C28_FullRunReturnsZero ==
  (/\ RunReturned /\ FullMode
   /\ StagesRun = <<"toc", "chunks", "summary", "plan", "evaluation">>
   /\ "evaluation.json" \in written_files)
    => exit_code = Some(0)

\* ------------------------------------------------------------------------
\* app/pipeline.py: run_pipeline_batch; app/ingestion.py: generate_note_id
\* ------------------------------------------------------------------------

MaxBatch == 2

\* Path.stem: the file name without its last suffix; a leading or a trailing
\* dot starts no suffix
Stem(name) ==
  LET dots == {i \in 1..Len(name) : name[i] = "."}
      last == IF dots = {} THEN 0 ELSE CHOOSE i \in dots : \A j \in dots : j <= i
  IN IF last > 1 /\ last < Len(name) THEN SubSeq(name, 1, last - 1) ELSE name

\* line 27: re.sub(r'[<>:"/\\|?*]', "_", note_id)
ReplaceUnsafe(s) ==
  [i \in 1..Len(s) |->
     IF s[i] \in {"<", ">", ":", "\"", "/", "\\", "|", "?", "*"} THEN "_" ELSE s[i]]

\* line 28: re.sub(r'\s+', "_", note_id)
RECURSIVE ReplaceSpaceRuns(_)
ReplaceSpaceRuns(s) ==
  IF s = <<>> THEN <<>>
  ELSE IF IsSpace(s[1])
  THEN IF Len(s) > 1 /\ IsSpace(s[2])
       THEN ReplaceSpaceRuns(Tail(s))
       ELSE <<"_">> \o ReplaceSpaceRuns(Tail(s))
  ELSE <<s[1]>> \o ReplaceSpaceRuns(Tail(s))

\* line 29: note_id.strip("._")
RECURSIVE StripDotsUnderscores(_)
StripDotsUnderscores(s) ==
  IF s = <<>> THEN <<>>
  ELSE IF s[1] \in {".", "_"} THEN StripDotsUnderscores(Tail(s))
  ELSE IF s[Len(s)] \in {".", "_"} THEN StripDotsUnderscores(SubSeq(s, 1, Len(s) - 1))
  ELSE s

UnknownNote == <<"u","n","k","n","o","w","n","_","n","o","t","e">>

\* generate_note_id; the name of a file is not empty, so neither is its stem
\* and the hash of lines 20-26 is not taken
generate_note_id(file_path) ==
  LET note_id == StripDotsUnderscores(ReplaceSpaceRuns(ReplaceUnsafe(Stem(file_path.name))))
  IN IF note_id = <<>> THEN UnknownNote ELSE note_id

\* pipeline.py lines 222-226: every document of a batch gets the same base
\* directory, so the note id names its output directory
OutputDir(file_path) == generate_note_id(file_path)

\* the documents a batch is made of
BatchNames ==
  { <<"n",".","p","d","f">>, <<"n",".","t","x","t">>,
    <<"n"," ","1",".","t","x","t">>, <<"n","_","1",".","t","x","t">> }

BatchPaths == { [parent |-> d, name |-> n] : d \in {"a", "b"}, n \in BatchNames }

InitBatch ==
  /\ pc = "batch_running"
  /\ PipelineIdle
  /\ IdleExcept("batch")
  /\ input_paths \in [1..MaxBatch -> BatchPaths]
  /\ workers \in 1..MaxBatch
  /\ task_state = [i \in 1..MaxBatch |-> "submitted"]
  /\ task_dir = [i \in 1..MaxBatch |-> None]
  /\ task_exit = [i \in 1..MaxBatch |-> None]
  /\ batch_results = {}
  /\ completed = 0

\* the tasks a worker thread is running
Running == {i \in 1..Len(task_state) : task_state[i] \in {"started", "opened"}}

\* ThreadPoolExecutor: a free worker takes the oldest submitted task
TaskStart(i) ==
  /\ pc = "batch_running"
  /\ task_state[i] = "submitted"
  /\ \A j \in 1..(i - 1) : task_state[j] # "submitted"
  /\ Cardinality(Running) < workers
  /\ task_state' = [task_state EXCEPT ![i] = "started"]
  /\ UNCHANGED <<pc, except_batch, input_paths, workers, task_dir, task_exit,
                 batch_results, completed>>

\* run_pipeline lines 177-230: after the pre-flight checks, which can return
\* 1, the output directory of the document is made and its log file opened
TaskOpen(i) ==
  /\ pc = "batch_running"
  /\ task_state[i] = "started"
  /\ \E preflight_ok \in BOOLEAN :
       IF preflight_ok
       THEN /\ task_dir' = [task_dir EXCEPT ![i] = Some(OutputDir(input_paths[i]))]
            /\ task_state' = [task_state EXCEPT ![i] = "opened"]
            /\ UNCHANGED task_exit
       ELSE /\ task_exit' = [task_exit EXCEPT ![i] = Some(1)]
            /\ task_state' = [task_state EXCEPT ![i] = "finished"]
            /\ UNCHANGED task_dir
  /\ UNCHANGED <<pc, except_batch, input_paths, workers, batch_results, completed>>

\* run_pipeline lines 232-513: the files of the document are written to its
\* output directory and the run returns 0 or 1; it lets no Exception out
TaskFinish(i) ==
  /\ pc = "batch_running"
  /\ task_state[i] = "opened"
  /\ \E code \in {0, 1} : task_exit' = [task_exit EXCEPT ![i] = Some(code)]
  /\ task_state' = [task_state EXCEPT ![i] = "finished"]
  /\ UNCHANGED <<pc, except_batch, input_paths, workers, task_dir, batch_results,
                 completed>>

\* lines 589-592: as_completed hands a finished future to the main thread,
\* which stores its result under the path
BatchCollect(i) ==
  /\ pc = "batch_running"
  /\ task_state[i] = "finished"
  /\ batch_results' =
       {r \in batch_results : r.path # input_paths[i]}
         \cup {[path |-> input_paths[i], exit_code |-> task_exit[i][1], error |-> None]}
  /\ completed' = completed + 1
  /\ task_state' = [task_state EXCEPT ![i] = "collected"]
  /\ UNCHANGED <<pc, except_batch, input_paths, workers, task_dir, task_exit>>

\* line 603: every future has been collected
BatchReturn ==
  /\ pc = "batch_running"
  /\ \A i \in 1..Len(task_state) : task_state[i] = "collected"
  /\ pc' = "batch_returned"
  /\ UNCHANGED <<later_vars, pipeline_rest>>

NextBatch ==
  \/ \E i \in 1..MaxBatch : TaskStart(i)
  \/ \E i \in 1..MaxBatch : TaskOpen(i)
  \/ \E i \in 1..MaxBatch : TaskFinish(i)
  \/ \E i \in 1..MaxBatch : BatchCollect(i)
  \/ BatchReturn

SpecBatch == InitBatch /\ [][NextBatch]_vars

\* C29: two documents of a batch with distinct input paths that are being
\* processed at the same time have distinct output directories, and the
\* returned result map has exactly one entry per input path.
C29_DistinctPathsDistinctDirs ==
  /\ \A i, j \in 1..Len(input_paths) :
       (/\ input_paths[i] # input_paths[j]
        /\ task_state[i] = "opened" /\ task_state[j] = "opened")
         => task_dir[i] # task_dir[j]
  /\ pc = "batch_returned" =>
       /\ {r.path : r \in batch_results} = {input_paths[i] : i \in 1..Len(input_paths)}
       /\ \A r, q \in batch_results : r.path = q.path => r = q

\* ------------------------------------------------------------------------
\* app/summarizer.py: extract_summary, one step per chunk, then the check of
\* the failure rate and the building of the Summary
\* ------------------------------------------------------------------------

\* most chunks of a document
MaxChunks == 4

\* config.max_chunk_failure_rate: both ends of its range, its default 0.3
\* and a half
FailureRates == { Ratio(0, 1), Ratio(3, 10), Ratio(1, 2), Ratio(1, 1) }

\* the fact extract_facts_from_chunk finds in the chunk at a position; the
\* first two are duplicates of each other
ChunkFact(i) ==
  [fact_text |-> <<TenWords, TenWords \o <<" ","k">>, <<"x">>, <<"y">>, <<"z">>>>[i],
   citations |-> <<>>]

\* a >= b for fractions with positive denominators
RatioAtLeast(a, b) == a.num * b.den >= b.num * a.den

InitSummary ==
  /\ pc = "summary_loop"
  /\ PipelineIdle
  /\ IdleExcept("summary")
  /\ chunk_outcomes \in SeqsUpTo({"facts", "raises"}, MaxChunks)
  /\ max_chunk_failure_rate \in FailureRates
  /\ chunk_pos = 1
  /\ failed_chunks = <<>>
  /\ all_facts = <<>>
  /\ summary_outcome = [kind |-> "none", facts |-> <<>>]

\* lines 395-403: one iteration of the loop over the chunks
ExtractFromChunk ==
  /\ pc = "summary_loop"
  /\ chunk_pos <= Len(chunk_outcomes)
  /\ IF chunk_outcomes[chunk_pos] = "facts"
     THEN /\ all_facts' = Append(all_facts, ChunkFact(chunk_pos))
          /\ UNCHANGED failed_chunks
     ELSE /\ failed_chunks' = Append(failed_chunks, chunk_pos)
          /\ UNCHANGED all_facts
  /\ chunk_pos' = chunk_pos + 1
  /\ UNCHANGED <<pc, except_summary, chunk_outcomes, max_chunk_failure_rate,
                 summary_outcome>>

\* line 406: len(failed_chunks) / len(chunks) if chunks else 0.0
failure_rate(failed, chunk_list) ==
  IF chunk_list # <<>> THEN Ratio(Len(failed), Len(chunk_list)) ELSE Ratio(0, 1)

\* line 407: the test that raises ValueError
RateRaises(rate, threshold) == RatioAtLeast(rate, threshold)

\* lines 405-420: after the loop the failure rate is checked; then the facts
\* are deduplicated and the Summary is built from them (categorize_facts only
\* groups them, and the patient snapshot falls back to regular expressions when
\* the model call fails, so nothing raises after the check)
FinishSummary ==
  /\ pc = "summary_loop"
  /\ chunk_pos > Len(chunk_outcomes)
  /\ IF RateRaises(failure_rate(failed_chunks, chunk_outcomes), max_chunk_failure_rate)
     THEN summary_outcome' = [kind |-> "ValueError", facts |-> <<>>]
     ELSE summary_outcome' = [kind |-> "Summary", facts |-> deduplicate_facts(all_facts)]
  /\ pc' = "summary_done"
  /\ UNCHANGED <<except_summary, chunk_outcomes, max_chunk_failure_rate, chunk_pos,
                 failed_chunks, all_facts>>

NextSummary ==
  \/ ExtractFromChunk
  \/ FinishSummary

SpecSummary == InitSummary /\ [][NextSummary]_vars

\* the chunks whose extraction raised, and the fraction they make
FailedCount == Cardinality({i \in 1..Len(chunk_outcomes) : chunk_outcomes[i] = "raises"})

\* the fraction of failed chunks is strictly above the threshold
FractionExceeds ==
  /\ chunk_outcomes # <<>>
  /\ FailedCount * max_chunk_failure_rate.den
       > max_chunk_failure_rate.num * Len(chunk_outcomes)

\* C24: extract_summary raises ValueError if and only if the fraction of
\* chunks whose extraction failed is strictly above max_chunk_failure_rate;
\* otherwise, and so whenever no chunk failed, it goes on with the facts of
\* the chunks that succeeded.
C24_RaisesIffRateExceeds ==
  pc = "summary_done" =>
    /\ summary_outcome.kind = "ValueError" <=> FractionExceeds
    /\ FailedCount = 0 => summary_outcome.kind = "Summary"
    /\ summary_outcome.kind = "Summary" =>
         /\ Len(all_facts) = Len(chunk_outcomes) - FailedCount
         /\ summary_outcome.facts = deduplicate_facts(all_facts)

\* ------------------------------------------------------------------------
\* app/llm.py: LLMClient.call, one step per attempt
\* ------------------------------------------------------------------------

\* largest max_retries of a client
MaxRetries == 3

\* what self.client.invoke does on an attempt: it raises (ValueError apart,
\* which has a handler of its own), or it answers with a text that holds a
\* JSON object, a JSON array, a cut-off JSON object or no JSON at all
Responses == {"raises", "raises_ValueError", "object", "array", "truncated", "prose"}

\* _extract_json_from_text: the parsed object, None for every other text
ExtractJson(response) == IF response = "object" THEN Some("dict") ELSE None

\* lines 371-399: the error message kept for the next prompt
JsonErrorMessage(response) ==
  IF response = "truncated" THEN "truncated"
  ELSE IF response = "array" THEN "array_structure"
  ELSE "not valid JSON"

\* "if system_message:" is false for None and for the empty string
Truthy(optional_text) == optional_text # None /\ optional_text[1] # <<>>

SystemMessage(content) == [role |-> "system", content |-> content]

HumanMessage(content) == [role |-> "human", content |-> content]

\* lines 333-337: the prompt, with the feedback on the last JSON error added
\* once there is one (there is none on the first attempt)
CurrentPrompt(json_error, as_text) ==
  IF json_error # None /\ ~as_text
  THEN <<"prompt", "ERROR", json_error[1]>>
  ELSE <<"prompt">>

\* range(1, self.max_retries + 1) with one attempt more
AttemptInRange_OneMore(n, retries) == n <= retries + 1

\* line 328: range(1, self.max_retries + 1)
AttemptInRange(n, retries) == n <= retries

InitCall ==
  /\ pc = "call_start"
  /\ PipelineIdle
  /\ IdleExcept("call")
  /\ max_retries \in 0..MaxRetries
  /\ system_message \in {None, Some(<<>>), Some(<<"s">>)}
  /\ return_text \in BOOLEAN
  /\ attempt = 0
  /\ messages = <<>>
  /\ last_json_error = None
  /\ invoke_log = <<>>
  /\ call_outcome = "none"

\* lines 311-327: the locals before the loop
CallStart ==
  /\ pc = "call_start"
  /\ messages' = IF Truthy(system_message)
                 THEN <<SystemMessage(system_message[1])>> ELSE <<>>
  /\ attempt' = 1
  /\ pc' = "call_loop"
  /\ UNCHANGED <<except_call, max_retries, system_message, return_text, last_json_error,
                 invoke_log, call_outcome>>

\* lines 339-343: the current prompt replaces the last message if there are
\* more than one, and is appended otherwise
WithPrompt(message_list, content) ==
  IF Len(message_list) > 1
  THEN [message_list EXCEPT ![Len(message_list)] = HumanMessage(content)]
  ELSE Append(message_list, HumanMessage(content))

\* lines 328-438: one attempt.  The model is invoked; its text is returned
\* (return_text) or parsed.  A text without a JSON object is retried with
\* feedback, and on the last attempt raises ValueError, which the handler of
\* line 421 turns into LLMError; an exception of the invocation is retried,
\* and after the last attempt the loop ends.
CallAttempt ==
  /\ pc = "call_loop"
  /\ AttemptInRange(attempt, max_retries)
  /\ \E response \in Responses :
       /\ messages' = WithPrompt(messages, CurrentPrompt(last_json_error, return_text))
       /\ invoke_log' = Append(invoke_log, [messages |-> messages', response |-> response])
       /\ IF response = "raises"
          THEN /\ attempt' = attempt + 1
               /\ UNCHANGED <<pc, last_json_error, call_outcome>>
          ELSE IF response = "raises_ValueError"
          THEN /\ IF attempt >= max_retries
                  THEN call_outcome' = "LLMError" /\ pc' = "call_done" /\ UNCHANGED attempt
                  ELSE attempt' = attempt + 1 /\ UNCHANGED <<pc, call_outcome>>
               /\ UNCHANGED last_json_error
          ELSE IF return_text
          THEN /\ call_outcome' = "returned_text"
               /\ pc' = "call_done"
               /\ UNCHANGED <<attempt, last_json_error>>
          ELSE IF ExtractJson(response) # None
          THEN /\ call_outcome' = "returned_json"
               /\ pc' = "call_done"
               /\ last_json_error' = None
               /\ UNCHANGED attempt
          ELSE /\ last_json_error' = Some(JsonErrorMessage(response))
               /\ IF attempt < max_retries
                  THEN attempt' = attempt + 1 /\ UNCHANGED <<pc, call_outcome>>
                  ELSE call_outcome' = "LLMError" /\ pc' = "call_done" /\ UNCHANGED attempt
  /\ UNCHANGED <<except_call, max_retries, system_message, return_text>>

\* lines 440-442: the loop is over and no attempt returned
CallExhausted ==
  /\ pc = "call_loop"
  /\ ~AttemptInRange(attempt, max_retries)
  /\ call_outcome' = "LLMError"
  /\ pc' = "call_done"
  /\ UNCHANGED <<except_call, max_retries, system_message, return_text, attempt, messages,
                 last_json_error, invoke_log>>

NextCall ==
  \/ CallStart
  \/ CallAttempt
  \/ CallExhausted

SpecCall == InitCall /\ [][NextCall]_vars

\* the call runs in one thread and every invocation ends (it answers, fails
\* or times out), so a step that can be taken is taken
SpecCallFair == SpecCall /\ WF_vars(NextCall)

\* a response the call can return
Usable(response) ==
  IF return_text
  THEN response \in {"object", "array", "truncated", "prose"}
  ELSE response = "object"

\* at most max_retries invocations, only the last of them usable, and the
\* call ends by returning after a usable response or by raising LLMError
\* after max_retries failed attempts
CallWithinRetries ==
  /\ Len(invoke_log) <= max_retries
  /\ \A k \in 1..(Len(invoke_log) - 1) : ~Usable(invoke_log[k].response)
  /\ pc = "call_done" =>
       \/ /\ call_outcome = IF return_text THEN "returned_text" ELSE "returned_json"
          /\ invoke_log # <<>>
          /\ Usable(invoke_log[Len(invoke_log)].response)
       \/ /\ call_outcome = "LLMError"
          /\ Len(invoke_log) = max_retries
          /\ \A k \in 1..Len(invoke_log) : ~Usable(invoke_log[k].response)

\* C25: the call invokes the model at most max_retries times, returns on the
\* first attempt with a usable response without invoking again, and when
\* every attempt fails ends by raising LLMError; it always ends.
C25_CallEndsWithinRetries == [](CallWithinRetries) /\ <>(pc = "call_done")

\* every attempt failed and the call raised LLMError after max_retries > 1
\* invocations, one of them an invocation error, one an unparsable answer
C25_Witness ==
  /\ pc = "call_done" /\ call_outcome = "LLMError"
  /\ max_retries > 1 /\ Len(invoke_log) = max_retries
  /\ \E j, k \in 1..Len(invoke_log) :
       invoke_log[j].response = "raises" /\ invoke_log[k].response = "prose"

\* C30: on every attempt the message list given to the model holds exactly
\* one human message, its last, preceded by the system message when one was
\* supplied.
C30_OneHumanMessagePerInvocation ==
  \A k \in 1..Len(invoke_log) :
    LET given == invoke_log[k].messages
    IN /\ Cardinality({i \in 1..Len(given) : given[i].role = "human"}) = 1
       /\ given[Len(given)].role = "human"
       /\ Truthy(system_message) =>
            given = <<SystemMessage(system_message[1]), given[Len(given)]>>

====
